---------------------------- MODULE Spec2Model ----------------------------
(***************************************************************************)
(* A model of the static-analysis core of the code review backend and of   *)
(* the endpoint that runs it:                                              *)
(*   backend/services/defect_classifier.py  (DefectClassifier)             *)
(*   backend/services/code_parser.py        (CodeParser)                   *)
(*   backend/agents/review_agent.py, backend/main.py  (/api/review)        *)
(*                                                                         *)
(* Source text is modelled as sequences of code points, lines are          *)
(* obtained with the code's own split('\n') / strip() and the rule         *)
(* catalog is matched with a model of re.search(..., re.IGNORECASE).       *)
(* Python floats are modelled as IEEE-754 binary64 values (round to        *)
(* nearest, ties to even), because the risk thresholds are compared on     *)
(* float values.                                                           *)
(***************************************************************************)
EXTENDS Integers, Sequences, FiniteSets, Bags, TLC

(***************************************************************************)
(* Natural numbers below 2^(NLimbs * LimbBits): NLimbs limbs in base 2^14, *)
(* least significant first.  They carry the 53-bit significands of         *)
(* binary64 arithmetic and their exact products, which do not fit the      *)
(* model checker's 32-bit integers.  Carries are resolved by look-ahead,   *)
(* so no operation recurses over the limbs, and the operations are         *)
(* functions, so their arguments are values when they are applied.         *)
(***************************************************************************)
LimbBits == 14

LimbBase == 2 ^ LimbBits

NLimbs == 11

Limbs == 1..NLimbs

BigNat == [Limbs -> 0..(LimbBase - 1)]

Pow2(n) == 2 ^ n

SetMin(S) == CHOOSE m \in S : \A e \in S : m <= e

SetMax(S) == CHOOSE m \in S : \A e \in S : m >= e

\* the sum of the natural numbers f[i]: the size of the bag holding f[i]
\* copies of each i
Sum(f) ==
    LET pos == {i \in DOMAIN f : f[i] > 0}
    IN  IF pos = {} THEN 0 ELSE BagCardinality([i \in pos |-> f[i]])

\* the function f over 1..NLimbs as a tuple of its values
Vec(f) == SubSeq(f, 1, NLimbs)

\* limb i of a, zero outside the width
Limb(a, i) == IF i \in Limbs THEN a[i] ELSE 0

BZero == Vec([i \in Limbs |-> 0])

\* 0 <= n < 2^31
BFromInt ==
    [n \in Nat |->
        Vec([i \in Limbs |->
                IF i <= 3 THEN (n \div Pow2(LimbBits * (i - 1))) % LimbBase ELSE 0])]

\* a small number back as an integer
BToInt == [a \in BigNat |-> a[1] + a[2] * LimbBase]

\* -1, 0 or 1 as a < b, a = b, a > b
BCmp ==
    [a \in BigNat, b \in BigNat |->
        LET diff == {i \in Limbs : a[i] # b[i]}
        IN  IF diff = {} THEN 0
            ELSE IF a[SetMax(diff)] < b[SetMax(diff)] THEN -1 ELSE 1]

BAdd ==
    [a \in BigNat, b \in BigNat |->
        LET s == Vec([i \in Limbs |-> a[i] + b[i]])
            CarryIn(i) == \E j \in 1..(i - 1) :
                             /\ s[j] >= LimbBase
                             /\ \A k \in (j + 1)..(i - 1) : s[k] = LimbBase - 1
        IN  Vec([i \in Limbs |-> (s[i] + (IF CarryIn(i) THEN 1 ELSE 0)) % LimbBase])]

\* a - b for a >= b
BSub ==
    [a \in BigNat, b \in BigNat |->
        LET d == Vec([i \in Limbs |-> a[i] - b[i]])
            BorrowIn(i) == \E j \in 1..(i - 1) :
                              /\ d[j] < 0
                              /\ \A k \in (j + 1)..(i - 1) : d[k] = 0
        IN  Vec([i \in Limbs |->
                    (d[i] - (IF BorrowIn(i) THEN 1 ELSE 0) + LimbBase) % LimbBase])]

\* a * 2^n
BShl ==
    [a \in BigNat, n \in Nat |->
        LET k == n \div LimbBits
            m == Pow2(n % LimbBits)
        IN  Vec([i \in Limbs |-> ((Limb(a, i - k) * m) % LimbBase)
                                   + ((Limb(a, i - k - 1) * m) \div LimbBase)])]

\* floor(a / 2^n)
BShr ==
    [a \in BigNat, n \in Nat |->
        LET k == n \div LimbBits
            r == n % LimbBits
        IN  Vec([i \in Limbs |-> (Limb(a, i + k) \div Pow2(r))
                                   + ((Limb(a, i + k + 1) % Pow2(r)) * Pow2(LimbBits - r))])]

\* a * d for 0 <= d < 2^14
BMulSmall ==
    [a \in BigNat, d \in Nat |->
        BAdd[Vec([i \in Limbs |-> (a[i] * d) % LimbBase]),
             Vec([i \in Limbs |-> (Limb(a, i - 1) * d) \div LimbBase])]]

\* a * b, for factors of at most 7 limbs each
BMul ==
    [a \in BigNat, b \in BigNat |->
        LET col == Vec([k \in Limbs |-> Sum([i \in 1..k |-> a[i] * b[k + 1 - i]])])
            Col(k) == IF k \in Limbs THEN col[k] ELSE 0
        IN  BAdd[BAdd[Vec([k \in Limbs |-> col[k] % LimbBase]),
                      Vec([k \in Limbs |-> (Col(k - 1) \div LimbBase) % LimbBase])],
                 Vec([k \in Limbs |-> Col(k - 2) \div (LimbBase * LimbBase)])]]

\* LimbBase^m mod d, by squaring
RECURSIVE PowMod(_, _)
PowMod(m, d) ==
    IF m = 0 THEN 1 % d
    ELSE LET h == PowMod(m \div 2, d)
         IN  (((h * h) % d) * (IF m % 2 = 1 THEN LimbBase % d ELSE 1)) % d

\* the limbs of a above limb i, modulo d: the remainder long division
\* carries into limb i
RemAbove(a, d, i) ==
    Sum([j \in (i + 1)..NLimbs |-> a[j] * PowMod(j - i - 1, d)]) % d

\* quotient and remainder of a by d, 0 < d <= 1000
BDivSmall ==
    [a \in BigNat, d \in Nat |->
        [quot |-> Vec([i \in Limbs |-> (RemAbove(a, d, i) * LimbBase + a[i]) \div d]),
         rem  |-> RemAbove(a, d, 0)]]

\* the number of bits of 0 <= n < 2^14
BitLenInt(n) ==
    CHOOSE b \in 0..LimbBits : n < Pow2(b) /\ (b = 0 \/ n >= Pow2(b - 1))

BBitLen ==
    [a \in BigNat |->
        LET nz == {i \in Limbs : a[i] # 0}
        IN  IF nz = {} THEN 0
            ELSE (SetMax(nz) - 1) * LimbBits + BitLenInt(a[SetMax(nz)])]

BIsOdd == [a \in BigNat |-> a[1] % 2 = 1]

(***************************************************************************)
(* Python float = IEEE-754 binary64.  A non-negative float x is held as    *)
(* the natural number x * 2^FracBits; every float the scoring code can     *)
(* produce (zero, and values from 2^-17 up) is a multiple of               *)
(* 2^-FracBits, so the representation is exact.  Each operation computes   *)
(* the exact result and rounds it to SigBits significant bits, ties to     *)
(* even, as the hardware does.                                             *)
(***************************************************************************)
SigBits == 53

FracBits == 70

\* extra quotient bits kept by a division before rounding
GuardBits == 56

\* v (with a non-zero remainder below its last bit when sticky) rounded to
\* SigBits significant bits, round-half-even
RoundSig ==
    [v \in BigNat, sticky \in BOOLEAN |->
        LET d == BBitLen[v] - SigBits
        IN  IF d <= 0 THEN v
            ELSE LET q  == BShr[v, d]
                     c  == BCmp[BSub[v, BShl[q, d]], BShl[BFromInt[1], d - 1]]
                     up == c > 0 \/ (c = 0 /\ (sticky \/ BIsOdd[q]))
                 IN  BShl[IF up THEN BAdd[q, BFromInt[1]] ELSE q, d]]

\* the quotient qr of a division carried to GuardBits extra bits, as a float
RoundQuot(qr) == BShr[RoundSig[qr.quot, qr.rem # 0], GuardBits]

\* the float nearest to p / q (a literal such as 0.4, or an int/int division)
DFromRatio ==
    [p \in Nat, q \in Nat |->
        RoundQuot(BDivSmall[BShl[BFromInt[p], FracBits + GuardBits], q])]

\* x + y
DAdd == [a \in BigNat, b \in BigNat |-> RoundSig[BAdd[a, b], FALSE]]

\* x * y
DMul == [a \in BigNat, b \in BigNat |-> BShr[RoundSig[BMul[a, b], FALSE], FracBits]]

\* x / n for a small positive integer n
DDivInt == [a \in BigNat, n \in Nat |-> RoundQuot(BDivSmall[BShl[a, GuardBits], n])]

\* x >= y
DGe == [a \in BigNat, b \in BigNat |-> BCmp[a, b] >= 0]

\* min(x, y)
DMin == [a \in BigNat, b \in BigNat |-> IF BCmp[b, a] < 0 THEN b ELSE a]

\* max(x, y)
DMax == [a \in BigNat, b \in BigNat |-> IF BCmp[b, a] > 0 THEN b ELSE a]

\* round(x, 3) in thousandths: the exact value of x rounded half-even
Round3Thousandths ==
    [a \in BigNat |->
        LET v  == BMulSmall[a, 1000]
            q  == BShr[v, FracBits]
            c  == BCmp[BSub[v, BShl[q, FracBits]], BShl[BFromInt[1], FracBits - 1]]
            up == c > 0 \/ (c = 0 /\ BIsOdd[q])
        IN  BToInt[q] + (IF up THEN 1 ELSE 0)]

\* round(x, 3): the nearest float to the rounded decimal (CPython's
\* correctly rounded round-trip)
Round3 == [a \in BigNat |-> DFromRatio[Round3Thousandths[a], 1000]]

(***************************************************************************)
(* Text.  A Python str that holds input, or is cut from it, is a text: the *)
(* sequence of its code points, each any of U+0000 to U+10FFFF, so that    *)
(* len(s) is Len(s) and s[i] is s[i + 1].  The program's own literals are  *)
(* written as TLA+ strings and Points gives the text of one; a str the     *)
(* program makes of its own literals and of numbers only (a rule's         *)
(* message, its severity, its pattern, an issue of analyze) stays a TLA+   *)
(* string.  The character classes and the case mappings are those of the   *)
(* Unicode database of CPython 3.11.                                       *)
(***************************************************************************)
Min(a, b) == IF a < b THEN a ELSE b

\* the UTF-16 unit at index i of a string, as a string
Unit(s, i) == SubSeq(s, i, i)

UnitSet(s) == {Unit(s, i) : i \in 1..Len(s)}

\* least index of the unit c in the string s, 0 when absent
IndexIn(c, s) ==
    LET hits == {i \in 1..Len(s) : Unit(s, i) = c}
    IN  IF hits = {} THEN 0 ELSE CHOOSE i \in hits : \A j \in hits : i <= j

\* U+0001 to U+007F in code-point order, with an apostrophe after the
\* backquote to close the quotation that a backquote opens
AsciiQuoted ==
    "	\n\r !\"#$%&'()*+,-./0123456789:;<=>?@ABCDEFGHIJKLMNOPQRSTUVWXYZ[\\]^_`'abcdefghijklmnopqrstuvwxyz{|}~"

\* U+0001 to U+007F, in code-point order
Ascii == SubSeq(AsciiQuoted, 1, 96) \o SubSeq(AsciiQuoted, 98, 128)

\* the characters of the Basic Multilingual Plane above U+007F that a string
\* literal holds: the code points whose low byte is 0x80 or more, one row of
\* 128 for each high byte 0x00-0xD7 and 0xE0-0xFF, in code-point order
Rows ==
    <<
      " ¡¢£¤¥¦§¨©ª«¬­®¯°±²³´µ¶·¸¹º»¼½¾¿ÀÁÂÃÄÅÆÇÈÉÊËÌÍÎÏÐÑÒÓÔÕÖ×ØÙÚÛÜÝÞßàáâãäåæçèéêëìíîïðñòóôõö÷øùúûüýþÿ",
      "ƀƁƂƃƄƅƆƇƈƉƊƋƌƍƎƏƐƑƒƓƔƕƖƗƘƙƚƛƜƝƞƟƠơƢƣƤƥƦƧƨƩƪƫƬƭƮƯưƱƲƳƴƵƶƷƸƹƺƻƼƽƾƿǀǁǂǃǄǅǆǇǈǉǊǋǌǍǎǏǐǑǒǓǔǕǖǗǘǙǚǛǜǝǞǟǠǡǢǣǤǥǦǧǨǩǪǫǬǭǮǯǰǱǲǳǴǵǶǷǸǹǺǻǼǽǾǿ",
      "ʀʁʂʃʄʅʆʇʈʉʊʋʌʍʎʏʐʑʒʓʔʕʖʗʘʙʚʛʜʝʞʟʠʡʢʣʤʥʦʧʨʩʪʫʬʭʮʯʰʱʲʳʴʵʶʷʸʹʺʻʼʽʾʿˀˁ˂˃˄˅ˆˇˈˉˊˋˌˍˎˏːˑ˒˓˔˕˖˗˘˙˚˛˜˝˞˟ˠˡˢˣˤ˥˦˧˨˩˪˫ˬ˭ˮ˯˰˱˲˳˴˵˶˷˸˹˺˻˼˽˾˿",
      "΀΁΂΃΄΅Ά·ΈΉΊ΋Ό΍ΎΏΐΑΒΓΔΕΖΗΘΙΚΛΜΝΞΟΠΡ΢ΣΤΥΦΧΨΩΪΫάέήίΰαβγδεζηθικλμνξοπρςστυφχψωϊϋόύώϏϐϑϒϓϔϕϖϗϘϙϚϛϜϝϞϟϠϡϢϣϤϥϦϧϨϩϪϫϬϭϮϯϰϱϲϳϴϵ϶ϷϸϹϺϻϼϽϾϿ",
      "Ҁҁ҂҃҄҅҆҇҈҉ҊҋҌҍҎҏҐґҒғҔҕҖҗҘҙҚқҜҝҞҟҠҡҢңҤҥҦҧҨҩҪҫҬҭҮүҰұҲҳҴҵҶҷҸҹҺһҼҽҾҿӀӁӂӃӄӅӆӇӈӉӊӋӌӍӎӏӐӑӒӓӔӕӖӗӘәӚӛӜӝӞӟӠӡӢӣӤӥӦӧӨөӪӫӬӭӮӯӰӱӲӳӴӵӶӷӸӹӺӻӼӽӾӿ",
      "րցւփքօֆևֈ։֊֋֌֍֎֏֐ְֱֲֳִֵֶַָֹֺֻּֽ֑֖֛֢֣֤֥֦֧֪֚֭֮֒֓֔֕֗֘֙֜֝֞֟֠֡֨֩֫֬֯־ֿ׀ׁׂ׃ׅׄ׆ׇ׈׉׊׋׌׍׎׏אבגדהוזחטיךכלםמןנסעףפץצקרשת׫׬׭׮ׯװױײ׳״׵׶׷׸׹׺׻׼׽׾׿",
      "ڀځڂڃڄڅچڇڈډڊڋڌڍڎڏڐڑڒړڔڕږڗژڙښڛڜڝڞڟڠڡڢڣڤڥڦڧڨکڪګڬڭڮگڰڱڲڳڴڵڶڷڸڹںڻڼڽھڿۀہۂۃۄۅۆۇۈۉۊۋیۍێۏېۑےۓ۔ەۖۗۘۙۚۛۜ۝۞ۣ۟۠ۡۢۤۥۦۧۨ۩۪ۭ۫۬ۮۯ۰۱۲۳۴۵۶۷۸۹ۺۻۼ۽۾ۿ",
      "ހށނރބޅކއވމފދތލގޏސޑޒޓޔޕޖޗޘޙޚޛޜޝޞޟޠޡޢޣޤޥަާިީުޫެޭޮޯްޱ޲޳޴޵޶޷޸޹޺޻޼޽޾޿߀߁߂߃߄߅߆߇߈߉ߊߋߌߍߎߏߐߑߒߓߔߕߖߗߘߙߚߛߜߝߞߟߠߡߢߣߤߥߦߧߨߩߪ߲߫߬߭߮߯߰߱߳ߴߵ߶߷߸߹ߺ߻߼߽߾߿",
      "ࢀࢁࢂࢃࢄࢅࢆࢇ࢈ࢉࢊࢋࢌࢍࢎ࢏࢐࢑࢒࢓࢔࢕࢖࢙࢚࢛ࢗ࢘࢜࢝࢞࢟ࢠࢡࢢࢣࢤࢥࢦࢧࢨࢩࢪࢫࢬࢭࢮࢯࢰࢱࢲࢳࢴࢵࢶࢷࢸࢹࢺࢻࢼࢽࢾࢿࣀࣁࣂࣃࣄࣅࣆࣇࣈࣉ࣏࣐࣑࣒࣓࣊࣋࣌࣍࣎ࣔࣕࣖࣗࣘࣙࣚࣛࣜࣝࣞࣟ࣠࣡࣢ࣰࣱࣲࣣࣦࣩ࣭࣮࣯ࣶࣹࣺࣤࣥࣧࣨ࣪࣫࣬ࣳࣴࣵࣷࣸࣻࣼࣽࣾࣿ",
      "ঀঁংঃ঄অআইঈউঊঋঌ঍঎এঐ঑঒ওঔকখগঘঙচছজঝঞটঠডঢণতথদধন঩পফবভমযর঱ল঳঴঵শষসহ঺঻়ঽািীুূৃৄ৅৆েৈ৉৊োৌ্ৎ৏৐৑৒৓৔৕৖ৗ৘৙৚৛ড়ঢ়৞য়ৠৡৢৣ৤৥০১২৩৪৫৬৭৮৯ৰৱ৲৳৴৵৶৷৸৹৺৻ৼ৽৾৿",
      "઀ઁંઃ઄અઆઇઈઉઊઋઌઍ઎એઐઑ઒ઓઔકખગઘઙચછજઝઞટઠડઢણતથદધન઩પફબભમયર઱લળ઴વશષસહ઺઻઼ઽાિીુૂૃૄૅ૆ેૈૉ૊ોૌ્૎૏ૐ૑૒૓૔૕૖૗૘૙૚૛૜૝૞૟ૠૡૢૣ૤૥૦૧૨૩૪૫૬૭૮૯૰૱૲૳૴૵૶૷૸ૹૺૻૼ૽૾૿",
      "஀஁ஂஃ஄அஆஇஈஉஊ஋஌஍எஏஐ஑ஒஓஔக஖஗஘ஙச஛ஜ஝ஞட஠஡஢ணத஥஦஧நனப஫஬஭மயரறலளழவஶஷஸஹ஺஻஼஽ாிீுூ௃௄௅ெேை௉ொோௌ்௎௏ௐ௑௒௓௔௕௖ௗ௘௙௚௛௜௝௞௟௠௡௢௣௤௥௦௧௨௩௪௫௬௭௮௯௰௱௲௳௴௵௶௷௸௹௺௻௼௽௾௿",
      "ಀಁಂಃ಄ಅಆಇಈಉಊಋಌ಍ಎಏಐ಑ಒಓಔಕಖಗಘಙಚಛಜಝಞಟಠಡಢಣತಥದಧನ಩ಪಫಬಭಮಯರಱಲಳ಴ವಶಷಸಹ಺಻಼ಽಾಿೀುೂೃೄ೅ೆೇೈ೉ೊೋೌ್೎೏೐೑೒೓೔ೕೖ೗೘೙೚೛೜ೝೞ೟ೠೡೢೣ೤೥೦೧೨೩೪೫೬೭೮೯೰ೱೲೳ೴೵೶೷೸೹೺೻೼೽೾೿",
      "඀ඁංඃ඄අආඇඈඉඊඋඌඍඎඏඐඑඒඓඔඕඖ඗඘඙කඛගඝඞඟචඡජඣඤඥඦටඨඩඪණඬතථදධන඲ඳපඵබභමඹයර඼ල඾඿වශෂසහළෆ෇෈෉්෋෌෍෎ාැෑිීු෕ූ෗ෘෙේෛොෝෞෟ෠෡෢෣෤෥෦෧෨෩෪෫෬෭෮෯෰෱ෲෳ෴෵෶෷෸෹෺෻෼෽෾෿",
      "຀ກຂ຃ຄ຅ຆງຈຉຊ຋ຌຍຎຏຐຑຒຓດຕຖທຘນບປຜຝພຟຠມຢຣ຤ລ຦ວຨຩສຫຬອຮຯະັາຳິີຶື຺ຸູົຼຽ຾຿ເແໂໃໄ໅ໆ໇່້໊໋໌ໍ໎໏໐໑໒໓໔໕໖໗໘໙໚໛ໜໝໞໟ໠໡໢໣໤໥໦໧໨໩໪໫໬໭໮໯໰໱໲໳໴໵໶໷໸໹໺໻໼໽໾໿",
      "྄ཱྀྀྂྃ྅྆྇ྈྉྊྋྌྍྎྏྐྑྒྒྷྔྕྖྗ྘ྙྚྛྜྜྷྞྟྠྡྡྷྣྤྥྦྦྷྨྩྪྫྫྷྭྮྯྰྱྲླྴྵྶྷྸྐྵྺྻྼ྽྾྿࿀࿁࿂࿃࿄࿅࿆࿇࿈࿉࿊࿋࿌࿍࿎࿏࿐࿑࿒࿓࿔࿕࿖࿗࿘࿙࿚࿛࿜࿝࿞࿟࿠࿡࿢࿣࿤࿥࿦࿧࿨࿩࿪࿫࿬࿭࿮࿯࿰࿱࿲࿳࿴࿵࿶࿷࿸࿹࿺࿻࿼࿽࿾࿿",
      "ႀႁႂႃႄႅႆႇႈႉႊႋႌႍႎႏ႐႑႒႓႔႕႖႗႘႙ႚႛႜႝ႞႟ႠႡႢႣႤႥႦႧႨႩႪႫႬႭႮႯႰႱႲႳႴႵႶႷႸႹႺႻႼႽႾႿჀჁჂჃჄჅ჆Ⴧ჈჉჊჋჌Ⴭ჎჏აბგდევზთიკლმნოპჟრსტუფქღყშჩცძწჭხჯჰჱჲჳჴჵჶჷჸჹჺ჻ჼჽჾჿ",
      "ᆀᆁᆂᆃᆄᆅᆆᆇᆈᆉᆊᆋᆌᆍᆎᆏᆐᆑᆒᆓᆔᆕᆖᆗᆘᆙᆚᆛᆜᆝᆞᆟᆠᆡᆢᆣᆤᆥᆦᆧᆨᆩᆪᆫᆬᆭᆮᆯᆰᆱᆲᆳᆴᆵᆶᆷᆸᆹᆺᆻᆼᆽᆾᆿᇀᇁᇂᇃᇄᇅᇆᇇᇈᇉᇊᇋᇌᇍᇎᇏᇐᇑᇒᇓᇔᇕᇖᇗᇘᇙᇚᇛᇜᇝᇞᇟᇠᇡᇢᇣᇤᇥᇦᇧᇨᇩᇪᇫᇬᇭᇮᇯᇰᇱᇲᇳᇴᇵᇶᇷᇸᇹᇺᇻᇼᇽᇾᇿ",
      "ኀኁኂኃኄኅኆኇኈ኉ኊኋኌኍ኎኏ነኑኒናኔንኖኗኘኙኚኛኜኝኞኟአኡኢኣኤእኦኧከኩኪካኬክኮኯኰ኱ኲኳኴኵ኶኷ኸኹኺኻኼኽኾ኿ዀ዁ዂዃዄዅ዆዇ወዉዊዋዌውዎዏዐዑዒዓዔዕዖ዗ዘዙዚዛዜዝዞዟዠዡዢዣዤዥዦዧየዩዪያዬይዮዯደዱዲዳዴድዶዷዸዹዺዻዼዽዾዿ",
      "ᎀᎁᎂᎃᎄᎅᎆᎇᎈᎉᎊᎋᎌᎍᎎᎏ᎐᎑᎒᎓᎔᎕᎖᎗᎘᎙᎚᎛᎜᎝᎞᎟ᎠᎡᎢᎣᎤᎥᎦᎧᎨᎩᎪᎫᎬᎭᎮᎯᎰᎱᎲᎳᎴᎵᎶᎷᎸᎹᎺᎻᎼᎽᎾᎿᏀᏁᏂᏃᏄᏅᏆᏇᏈᏉᏊᏋᏌᏍᏎᏏᏐᏑᏒᏓᏔᏕᏖᏗᏘᏙᏚᏛᏜᏝᏞᏟᏠᏡᏢᏣᏤᏥᏦᏧᏨᏩᏪᏫᏬᏭᏮᏯᏰᏱᏲᏳᏴᏵ᏶᏷ᏸᏹᏺᏻᏼᏽ᏾᏿",
      "ᒀᒁᒂᒃᒄᒅᒆᒇᒈᒉᒊᒋᒌᒍᒎᒏᒐᒑᒒᒓᒔᒕᒖᒗᒘᒙᒚᒛᒜᒝᒞᒟᒠᒡᒢᒣᒤᒥᒦᒧᒨᒩᒪᒫᒬᒭᒮᒯᒰᒱᒲᒳᒴᒵᒶᒷᒸᒹᒺᒻᒼᒽᒾᒿᓀᓁᓂᓃᓄᓅᓆᓇᓈᓉᓊᓋᓌᓍᓎᓏᓐᓑᓒᓓᓔᓕᓖᓗᓘᓙᓚᓛᓜᓝᓞᓟᓠᓡᓢᓣᓤᓥᓦᓧᓨᓩᓪᓫᓬᓭᓮᓯᓰᓱᓲᓳᓴᓵᓶᓷᓸᓹᓺᓻᓼᓽᓾᓿ",
      "ᖀᖁᖂᖃᖄᖅᖆᖇᖈᖉᖊᖋᖌᖍᖎᖏᖐᖑᖒᖓᖔᖕᖖᖗᖘᖙᖚᖛᖜᖝᖞᖟᖠᖡᖢᖣᖤᖥᖦᖧᖨᖩᖪᖫᖬᖭᖮᖯᖰᖱᖲᖳᖴᖵᖶᖷᖸᖹᖺᖻᖼᖽᖾᖿᗀᗁᗂᗃᗄᗅᗆᗇᗈᗉᗊᗋᗌᗍᗎᗏᗐᗑᗒᗓᗔᗕᗖᗗᗘᗙᗚᗛᗜᗝᗞᗟᗠᗡᗢᗣᗤᗥᗦᗧᗨᗩᗪᗫᗬᗭᗮᗯᗰᗱᗲᗳᗴᗵᗶᗷᗸᗹᗺᗻᗼᗽᗾᗿ",
      " ᚁᚂᚃᚄᚅᚆᚇᚈᚉᚊᚋᚌᚍᚎᚏᚐᚑᚒᚓᚔᚕᚖᚗᚘᚙᚚ᚛᚜᚝᚞᚟ᚠᚡᚢᚣᚤᚥᚦᚧᚨᚩᚪᚫᚬᚭᚮᚯᚰᚱᚲᚳᚴᚵᚶᚷᚸᚹᚺᚻᚼᚽᚾᚿᛀᛁᛂᛃᛄᛅᛆᛇᛈᛉᛊᛋᛌᛍᛎᛏᛐᛑᛒᛓᛔᛕᛖᛗᛘᛙᛚᛛᛜᛝᛞᛟᛠᛡᛢᛣᛤᛥᛦᛧᛨᛩᛪ᛫᛬᛭ᛮᛯᛰᛱᛲᛳᛴᛵᛶᛷᛸ᛹᛺᛻᛼᛽᛾᛿",
      "កខគឃងចឆជឈញដឋឌឍណតថទធនបផពភមយរលវឝឞសហឡអឣឤឥឦឧឨឩឪឫឬឭឮឯឰឱឲឳ឴឵ាិីឹឺុូួើឿៀេែៃោៅំះៈ៉៊់៌៍៎៏័៑្៓។៕៖ៗ៘៙៚៛ៜ៝៞៟០១២៣៤៥៦៧៨៩៪៫៬៭៮៯៰៱៲៳៴៵៶៷៸៹៺៻៼៽៾៿",
      "ᢀᢁᢂᢃᢄᢅᢆᢇᢈᢉᢊᢋᢌᢍᢎᢏᢐᢑᢒᢓᢔᢕᢖᢗᢘᢙᢚᢛᢜᢝᢞᢟᢠᢡᢢᢣᢤᢥᢦᢧᢨᢩᢪ᢫᢬᢭᢮᢯ᢰᢱᢲᢳᢴᢵᢶᢷᢸᢹᢺᢻᢼᢽᢾᢿᣀᣁᣂᣃᣄᣅᣆᣇᣈᣉᣊᣋᣌᣍᣎᣏᣐᣑᣒᣓᣔᣕᣖᣗᣘᣙᣚᣛᣜᣝᣞᣟᣠᣡᣢᣣᣤᣥᣦᣧᣨᣩᣪᣫᣬᣭᣮᣯᣰᣱᣲᣳᣴᣵ᣶᣷᣸᣹᣺᣻᣼᣽᣾᣿",
      "ᦀᦁᦂᦃᦄᦅᦆᦇᦈᦉᦊᦋᦌᦍᦎᦏᦐᦑᦒᦓᦔᦕᦖᦗᦘᦙᦚᦛᦜᦝᦞᦟᦠᦡᦢᦣᦤᦥᦦᦧᦨᦩᦪᦫ᦬᦭᦮᦯ᦰᦱᦲᦳᦴᦵᦶᦷᦸᦹᦺᦻᦼᦽᦾᦿᧀᧁᧂᧃᧄᧅᧆᧇᧈᧉ᧊᧋᧌᧍᧎᧏᧐᧑᧒᧓᧔᧕᧖᧗᧘᧙᧚᧛᧜᧝᧞᧟᧠᧡᧢᧣᧤᧥᧦᧧᧨᧩᧪᧫᧬᧭᧮᧯᧰᧱᧲᧳᧴᧵᧶᧷᧸᧹᧺᧻᧼᧽᧾᧿",
      "᪀᪁᪂᪃᪄᪅᪆᪇᪈᪉᪊᪋᪌᪍᪎᪏᪐᪑᪒᪓᪔᪕᪖᪗᪘᪙᪚᪛᪜᪝᪞᪟᪠᪡᪢᪣᪤᪥᪦ᪧ᪨᪩᪪᪫᪬᪭᪮᪯᪵᪶᪷᪸᪹᪺᪽᪰᪱᪲᪳᪴᪻᪼᪾ᪿᫀ᫃᫄᫊᫁᫂᫅᫆᫇᫈᫉᫋ᫌᫍᫎ᫏᫐᫑᫒᫓᫔᫕᫖᫗᫘᫙᫚᫛᫜᫝᫞᫟᫠᫡᫢᫣᫤᫥᫦᫧᫨᫩᫪᫫᫬᫭᫮᫯᫰᫱᫲᫳᫴᫵᫶᫷᫸᫹᫺᫻᫼᫽᫾᫿",
      "ᮀᮁᮂᮃᮄᮅᮆᮇᮈᮉᮊᮋᮌᮍᮎᮏᮐᮑᮒᮓᮔᮕᮖᮗᮘᮙᮚᮛᮜᮝᮞᮟᮠᮡᮢᮣᮤᮥᮦᮧᮨᮩ᮪᮫ᮬᮭᮮᮯ᮰᮱᮲᮳᮴᮵᮶᮷᮸᮹ᮺᮻᮼᮽᮾᮿᯀᯁᯂᯃᯄᯅᯆᯇᯈᯉᯊᯋᯌᯍᯎᯏᯐᯑᯒᯓᯔᯕᯖᯗᯘᯙᯚᯛᯜᯝᯞᯟᯠᯡᯢᯣᯤᯥ᯦ᯧᯨᯩᯪᯫᯬᯭᯮᯯᯰᯱ᯲᯳᯴᯵᯶᯷᯸᯹᯺᯻᯼᯽᯾᯿",
      "ᲀᲁᲂᲃᲄᲅᲆᲇᲈᲉᲊ᲋᲌᲍᲎᲏ᲐᲑᲒᲓᲔᲕᲖᲗᲘᲙᲚᲛᲜᲝᲞᲟᲠᲡᲢᲣᲤᲥᲦᲧᲨᲩᲪᲫᲬᲭᲮᲯᲰᲱᲲᲳᲴᲵᲶᲷᲸᲹᲺ᲻᲼ᲽᲾᲿ᳀᳁᳂᳃᳄᳅᳆᳇᳈᳉᳊᳋᳌᳍᳎᳏᳐᳑᳒᳓᳔᳕᳖᳗᳘᳙᳜᳝᳞᳟᳚᳛᳠᳡᳢᳣᳤᳥᳦᳧᳨ᳩᳪᳫᳬ᳭ᳮᳯᳰᳱᳲᳳ᳴ᳵᳶ᳷᳸᳹ᳺ᳻᳼᳽᳾᳿",
      "ᶀᶁᶂᶃᶄᶅᶆᶇᶈᶉᶊᶋᶌᶍᶎᶏᶐᶑᶒᶓᶔᶕᶖᶗᶘᶙᶚᶛᶜᶝᶞᶟᶠᶡᶢᶣᶤᶥᶦᶧᶨᶩᶪᶫᶬᶭᶮᶯᶰᶱᶲᶳᶴᶵᶶᶷᶸᶹᶺᶻᶼᶽᶾᶿ᷐᷎᷺᷂᷊᷏᷹᷽᷿᷷᷸᷀᷁᷃᷄᷅᷆᷇᷈᷉᷋᷌᷑᷒ᷓᷔᷕᷖᷗᷘᷙᷚᷛᷜᷝᷞᷟᷠᷡᷢᷣᷤᷥᷦᷧᷨᷩᷪᷫᷬᷭᷮᷯᷰᷱᷲᷳᷴ᷵᷻᷾᷶᷼᷍",
      "ẀẁẂẃẄẅẆẇẈẉẊẋẌẍẎẏẐẑẒẓẔẕẖẗẘẙẚẛẜẝẞẟẠạẢảẤấẦầẨẩẪẫẬậẮắẰằẲẳẴẵẶặẸẹẺẻẼẽẾếỀềỂểỄễỆệỈỉỊịỌọỎỏỐốỒồỔổỖỗỘộỚớỜờỞởỠỡỢợỤụỦủỨứỪừỬửỮữỰựỲỳỴỵỶỷỸỹỺỻỼỽỾỿ",
      "ᾀᾁᾂᾃᾄᾅᾆᾇᾈᾉᾊᾋᾌᾍᾎᾏᾐᾑᾒᾓᾔᾕᾖᾗᾘᾙᾚᾛᾜᾝᾞᾟᾠᾡᾢᾣᾤᾥᾦᾧᾨᾩᾪᾫᾬᾭᾮᾯᾰᾱᾲᾳᾴ᾵ᾶᾷᾸᾹᾺΆᾼ᾽ι᾿῀῁ῂῃῄ῅ῆῇῈΈῊΉῌ῍῎῏ῐῑῒΐ῔῕ῖῗῘῙῚΊ῜῝῞῟ῠῡῢΰῤῥῦῧῨῩῪΎῬ῭΅`῰῱ῲῳῴ῵ῶῷῸΌῺΏῼ´῾῿",
      "₀₁₂₃₄₅₆₇₈₉₊₋₌₍₎₏ₐₑₒₓₔₕₖₗₘₙₚₛₜ₝₞₟₠₡₢₣₤₥₦₧₨₩₪₫€₭₮₯₰₱₲₳₴₵₶₷₸₹₺₻₼₽₾₿⃀⃁⃂⃃⃄⃅⃆⃇⃈⃉⃊⃋⃌⃍⃎⃏⃒⃓⃘⃙⃚⃐⃑⃔⃕⃖⃗⃛⃜⃝⃞⃟⃠⃡⃢⃣⃤⃥⃦⃪⃫⃨⃬⃭⃮⃯⃧⃩⃰⃱⃲⃳⃴⃵⃶⃷⃸⃹⃺⃻⃼⃽⃾⃿",
      "ↀↁↂↃↄↅↆↇↈ↉↊↋↌↍↎↏←↑→↓↔↕↖↗↘↙↚↛↜↝↞↟↠↡↢↣↤↥↦↧↨↩↪↫↬↭↮↯↰↱↲↳↴↵↶↷↸↹↺↻↼↽↾↿⇀⇁⇂⇃⇄⇅⇆⇇⇈⇉⇊⇋⇌⇍⇎⇏⇐⇑⇒⇓⇔⇕⇖⇗⇘⇙⇚⇛⇜⇝⇞⇟⇠⇡⇢⇣⇤⇥⇦⇧⇨⇩⇪⇫⇬⇭⇮⇯⇰⇱⇲⇳⇴⇵⇶⇷⇸⇹⇺⇻⇼⇽⇾⇿",
      "⊀⊁⊂⊃⊄⊅⊆⊇⊈⊉⊊⊋⊌⊍⊎⊏⊐⊑⊒⊓⊔⊕⊖⊗⊘⊙⊚⊛⊜⊝⊞⊟⊠⊡⊢⊣⊤⊥⊦⊧⊨⊩⊪⊫⊬⊭⊮⊯⊰⊱⊲⊳⊴⊵⊶⊷⊸⊹⊺⊻⊼⊽⊾⊿⋀⋁⋂⋃⋄⋅⋆⋇⋈⋉⋊⋋⋌⋍⋎⋏⋐⋑⋒⋓⋔⋕⋖⋗⋘⋙⋚⋛⋜⋝⋞⋟⋠⋡⋢⋣⋤⋥⋦⋧⋨⋩⋪⋫⋬⋭⋮⋯⋰⋱⋲⋳⋴⋵⋶⋷⋸⋹⋺⋻⋼⋽⋾⋿",
      "⎀⎁⎂⎃⎄⎅⎆⎇⎈⎉⎊⎋⎌⎍⎎⎏⎐⎑⎒⎓⎔⎕⎖⎗⎘⎙⎚⎛⎜⎝⎞⎟⎠⎡⎢⎣⎤⎥⎦⎧⎨⎩⎪⎫⎬⎭⎮⎯⎰⎱⎲⎳⎴⎵⎶⎷⎸⎹⎺⎻⎼⎽⎾⎿⏀⏁⏂⏃⏄⏅⏆⏇⏈⏉⏊⏋⏌⏍⏎⏏⏐⏑⏒⏓⏔⏕⏖⏗⏘⏙⏚⏛⏜⏝⏞⏟⏠⏡⏢⏣⏤⏥⏦⏧⏨⏩⏪⏫⏬⏭⏮⏯⏰⏱⏲⏳⏴⏵⏶⏷⏸⏹⏺⏻⏼⏽⏾⏿",
      "⒀⒁⒂⒃⒄⒅⒆⒇⒈⒉⒊⒋⒌⒍⒎⒏⒐⒑⒒⒓⒔⒕⒖⒗⒘⒙⒚⒛⒜⒝⒞⒟⒠⒡⒢⒣⒤⒥⒦⒧⒨⒩⒪⒫⒬⒭⒮⒯⒰⒱⒲⒳⒴⒵ⒶⒷⒸⒹⒺⒻⒼⒽⒾⒿⓀⓁⓂⓃⓄⓅⓆⓇⓈⓉⓊⓋⓌⓍⓎⓏⓐⓑⓒⓓⓔⓕⓖⓗⓘⓙⓚⓛⓜⓝⓞⓟⓠⓡⓢⓣⓤⓥⓦⓧⓨⓩ⓪⓫⓬⓭⓮⓯⓰⓱⓲⓳⓴⓵⓶⓷⓸⓹⓺⓻⓼⓽⓾⓿",
      "▀▁▂▃▄▅▆▇█▉▊▋▌▍▎▏▐░▒▓▔▕▖▗▘▙▚▛▜▝▞▟■□▢▣▤▥▦▧▨▩▪▫▬▭▮▯▰▱▲△▴▵▶▷▸▹►▻▼▽▾▿◀◁◂◃◄◅◆◇◈◉◊○◌◍◎●◐◑◒◓◔◕◖◗◘◙◚◛◜◝◞◟◠◡◢◣◤◥◦◧◨◩◪◫◬◭◮◯◰◱◲◳◴◵◶◷◸◹◺◻◼◽◾◿",
      "⚀⚁⚂⚃⚄⚅⚆⚇⚈⚉⚊⚋⚌⚍⚎⚏⚐⚑⚒⚓⚔⚕⚖⚗⚘⚙⚚⚛⚜⚝⚞⚟⚠⚡⚢⚣⚤⚥⚦⚧⚨⚩⚪⚫⚬⚭⚮⚯⚰⚱⚲⚳⚴⚵⚶⚷⚸⚹⚺⚻⚼⚽⚾⚿⛀⛁⛂⛃⛄⛅⛆⛇⛈⛉⛊⛋⛌⛍⛎⛏⛐⛑⛒⛓⛔⛕⛖⛗⛘⛙⛚⛛⛜⛝⛞⛟⛠⛡⛢⛣⛤⛥⛦⛧⛨⛩⛪⛫⛬⛭⛮⛯⛰⛱⛲⛳⛴⛵⛶⛷⛸⛹⛺⛻⛼⛽⛾⛿",
      "➀➁➂➃➄➅➆➇➈➉➊➋➌➍➎➏➐➑➒➓➔➕➖➗➘➙➚➛➜➝➞➟➠➡➢➣➤➥➦➧➨➩➪➫➬➭➮➯➰➱➲➳➴➵➶➷➸➹➺➻➼➽➾➿⟀⟁⟂⟃⟄⟅⟆⟇⟈⟉⟊⟋⟌⟍⟎⟏⟐⟑⟒⟓⟔⟕⟖⟗⟘⟙⟚⟛⟜⟝⟞⟟⟠⟡⟢⟣⟤⟥⟦⟧⟨⟩⟪⟫⟬⟭⟮⟯⟰⟱⟲⟳⟴⟵⟶⟷⟸⟹⟺⟻⟼⟽⟾⟿",
      "⢀⢁⢂⢃⢄⢅⢆⢇⢈⢉⢊⢋⢌⢍⢎⢏⢐⢑⢒⢓⢔⢕⢖⢗⢘⢙⢚⢛⢜⢝⢞⢟⢠⢡⢢⢣⢤⢥⢦⢧⢨⢩⢪⢫⢬⢭⢮⢯⢰⢱⢲⢳⢴⢵⢶⢷⢸⢹⢺⢻⢼⢽⢾⢿⣀⣁⣂⣃⣄⣅⣆⣇⣈⣉⣊⣋⣌⣍⣎⣏⣐⣑⣒⣓⣔⣕⣖⣗⣘⣙⣚⣛⣜⣝⣞⣟⣠⣡⣢⣣⣤⣥⣦⣧⣨⣩⣪⣫⣬⣭⣮⣯⣰⣱⣲⣳⣴⣵⣶⣷⣸⣹⣺⣻⣼⣽⣾⣿",
      "⦀⦁⦂⦃⦄⦅⦆⦇⦈⦉⦊⦋⦌⦍⦎⦏⦐⦑⦒⦓⦔⦕⦖⦗⦘⦙⦚⦛⦜⦝⦞⦟⦠⦡⦢⦣⦤⦥⦦⦧⦨⦩⦪⦫⦬⦭⦮⦯⦰⦱⦲⦳⦴⦵⦶⦷⦸⦹⦺⦻⦼⦽⦾⦿⧀⧁⧂⧃⧄⧅⧆⧇⧈⧉⧊⧋⧌⧍⧎⧏⧐⧑⧒⧓⧔⧕⧖⧗⧘⧙⧚⧛⧜⧝⧞⧟⧠⧡⧢⧣⧤⧥⧦⧧⧨⧩⧪⧫⧬⧭⧮⧯⧰⧱⧲⧳⧴⧵⧶⧷⧸⧹⧺⧻⧼⧽⧾⧿",
      "⪀⪁⪂⪃⪄⪅⪆⪇⪈⪉⪊⪋⪌⪍⪎⪏⪐⪑⪒⪓⪔⪕⪖⪗⪘⪙⪚⪛⪜⪝⪞⪟⪠⪡⪢⪣⪤⪥⪦⪧⪨⪩⪪⪫⪬⪭⪮⪯⪰⪱⪲⪳⪴⪵⪶⪷⪸⪹⪺⪻⪼⪽⪾⪿⫀⫁⫂⫃⫄⫅⫆⫇⫈⫉⫊⫋⫌⫍⫎⫏⫐⫑⫒⫓⫔⫕⫖⫗⫘⫙⫚⫛⫝̸⫝⫞⫟⫠⫡⫢⫣⫤⫥⫦⫧⫨⫩⫪⫫⫬⫭⫮⫯⫰⫱⫲⫳⫴⫵⫶⫷⫸⫹⫺⫻⫼⫽⫾⫿",
      "⮀⮁⮂⮃⮄⮅⮆⮇⮈⮉⮊⮋⮌⮍⮎⮏⮐⮑⮒⮓⮔⮕⮖⮗⮘⮙⮚⮛⮜⮝⮞⮟⮠⮡⮢⮣⮤⮥⮦⮧⮨⮩⮪⮫⮬⮭⮮⮯⮰⮱⮲⮳⮴⮵⮶⮷⮸⮹⮺⮻⮼⮽⮾⮿⯀⯁⯂⯃⯄⯅⯆⯇⯈⯉⯊⯋⯌⯍⯎⯏⯐⯑⯒⯓⯔⯕⯖⯗⯘⯙⯚⯛⯜⯝⯞⯟⯠⯡⯢⯣⯤⯥⯦⯧⯨⯩⯪⯫⯬⯭⯮⯯⯰⯱⯲⯳⯴⯵⯶⯷⯸⯹⯺⯻⯼⯽⯾⯿",
      "ⲀⲁⲂⲃⲄⲅⲆⲇⲈⲉⲊⲋⲌⲍⲎⲏⲐⲑⲒⲓⲔⲕⲖⲗⲘⲙⲚⲛⲜⲝⲞⲟⲠⲡⲢⲣⲤⲥⲦⲧⲨⲩⲪⲫⲬⲭⲮⲯⲰⲱⲲⲳⲴⲵⲶⲷⲸⲹⲺⲻⲼⲽⲾⲿⳀⳁⳂⳃⳄⳅⳆⳇⳈⳉⳊⳋⳌⳍⳎⳏⳐⳑⳒⳓⳔⳕⳖⳗⳘⳙⳚⳛⳜⳝⳞⳟⳠⳡⳢⳣⳤ⳥⳦⳧⳨⳩⳪ⳫⳬⳭⳮ⳯⳰⳱Ⳳⳳ⳴⳵⳶⳷⳸⳹⳺⳻⳼⳽⳾⳿",
      "ⶀⶁⶂⶃⶄⶅⶆⶇⶈⶉⶊⶋⶌⶍⶎⶏⶐⶑⶒⶓⶔⶕⶖ⶗⶘⶙⶚⶛⶜⶝⶞⶟ⶠⶡⶢⶣⶤⶥⶦ⶧ⶨⶩⶪⶫⶬⶭⶮ⶯ⶰⶱⶲⶳⶴⶵⶶ⶷ⶸⶹⶺⶻⶼⶽⶾ⶿ⷀⷁⷂⷃⷄⷅⷆ⷇ⷈⷉⷊⷋⷌⷍⷎ⷏ⷐⷑⷒⷓⷔⷕⷖ⷗ⷘⷙⷚⷛⷜⷝⷞ⷟ⷠⷡⷢⷣⷤⷥⷦⷧⷨⷩⷪⷫⷬⷭⷮⷯⷰⷱⷲⷳⷴⷵⷶⷷⷸⷹⷺⷻⷼⷽⷾⷿ",
      "⺀⺁⺂⺃⺄⺅⺆⺇⺈⺉⺊⺋⺌⺍⺎⺏⺐⺑⺒⺓⺔⺕⺖⺗⺘⺙⺚⺛⺜⺝⺞⺟⺠⺡⺢⺣⺤⺥⺦⺧⺨⺩⺪⺫⺬⺭⺮⺯⺰⺱⺲⺳⺴⺵⺶⺷⺸⺹⺺⺻⺼⺽⺾⺿⻀⻁⻂⻃⻄⻅⻆⻇⻈⻉⻊⻋⻌⻍⻎⻏⻐⻑⻒⻓⻔⻕⻖⻗⻘⻙⻚⻛⻜⻝⻞⻟⻠⻡⻢⻣⻤⻥⻦⻧⻨⻩⻪⻫⻬⻭⻮⻯⻰⻱⻲⻳⻴⻵⻶⻷⻸⻹⻺⻻⻼⻽⻾⻿",
      "⾀⾁⾂⾃⾄⾅⾆⾇⾈⾉⾊⾋⾌⾍⾎⾏⾐⾑⾒⾓⾔⾕⾖⾗⾘⾙⾚⾛⾜⾝⾞⾟⾠⾡⾢⾣⾤⾥⾦⾧⾨⾩⾪⾫⾬⾭⾮⾯⾰⾱⾲⾳⾴⾵⾶⾷⾸⾹⾺⾻⾼⾽⾾⾿⿀⿁⿂⿃⿄⿅⿆⿇⿈⿉⿊⿋⿌⿍⿎⿏⿐⿑⿒⿓⿔⿕⿖⿗⿘⿙⿚⿛⿜⿝⿞⿟⿠⿡⿢⿣⿤⿥⿦⿧⿨⿩⿪⿫⿬⿭⿮⿯⿰⿱⿲⿳⿴⿵⿶⿷⿸⿹⿺⿻⿼⿽⿾⿿",
      "むめもゃやゅゆょよらりるれろゎわゐゑをんゔゕゖ゗゘゙゚゛゜ゝゞゟ゠ァアィイゥウェエォオカガキギクグケゲコゴサザシジスズセゼソゾタダチヂッツヅテデトドナニヌネノハバパヒビピフブプヘベペホボポマミムメモャヤュユョヨラリルレロヮワヰヱヲンヴヵヶヷヸヹヺ・ーヽヾヿ",
      "ㆀㆁㆂㆃㆄㆅㆆㆇㆈㆉㆊㆋㆌㆍㆎ㆏㆐㆑㆒㆓㆔㆕㆖㆗㆘㆙㆚㆛㆜㆝㆞㆟ㆠㆡㆢㆣㆤㆥㆦㆧㆨㆩㆪㆫㆬㆭㆮㆯㆰㆱㆲㆳㆴㆵㆶㆷㆸㆹㆺㆻㆼㆽㆾㆿ㇀㇁㇂㇃㇄㇅㇆㇇㇈㇉㇊㇋㇌㇍㇎㇏㇐㇑㇒㇓㇔㇕㇖㇗㇘㇙㇚㇛㇜㇝㇞㇟㇠㇡㇢㇣㇤㇥㇦㇧㇨㇩㇪㇫㇬㇭㇮㇯ㇰㇱㇲㇳㇴㇵㇶㇷㇸㇹㇺㇻㇼㇽㇾㇿ",
      "㊀㊁㊂㊃㊄㊅㊆㊇㊈㊉㊊㊋㊌㊍㊎㊏㊐㊑㊒㊓㊔㊕㊖㊗㊘㊙㊚㊛㊜㊝㊞㊟㊠㊡㊢㊣㊤㊥㊦㊧㊨㊩㊪㊫㊬㊭㊮㊯㊰㊱㊲㊳㊴㊵㊶㊷㊸㊹㊺㊻㊼㊽㊾㊿㋀㋁㋂㋃㋄㋅㋆㋇㋈㋉㋊㋋㋌㋍㋎㋏㋐㋑㋒㋓㋔㋕㋖㋗㋘㋙㋚㋛㋜㋝㋞㋟㋠㋡㋢㋣㋤㋥㋦㋧㋨㋩㋪㋫㋬㋭㋮㋯㋰㋱㋲㋳㋴㋵㋶㋷㋸㋹㋺㋻㋼㋽㋾㋿",
      "㎀㎁㎂㎃㎄㎅㎆㎇㎈㎉㎊㎋㎌㎍㎎㎏㎐㎑㎒㎓㎔㎕㎖㎗㎘㎙㎚㎛㎜㎝㎞㎟㎠㎡㎢㎣㎤㎥㎦㎧㎨㎩㎪㎫㎬㎭㎮㎯㎰㎱㎲㎳㎴㎵㎶㎷㎸㎹㎺㎻㎼㎽㎾㎿㏀㏁㏂㏃㏄㏅㏆㏇㏈㏉㏊㏋㏌㏍㏎㏏㏐㏑㏒㏓㏔㏕㏖㏗㏘㏙㏚㏛㏜㏝㏞㏟㏠㏡㏢㏣㏤㏥㏦㏧㏨㏩㏪㏫㏬㏭㏮㏯㏰㏱㏲㏳㏴㏵㏶㏷㏸㏹㏺㏻㏼㏽㏾㏿",
      "㒀㒁㒂㒃㒄㒅㒆㒇㒈㒉㒊㒋㒌㒍㒎㒏㒐㒑㒒㒓㒔㒕㒖㒗㒘㒙㒚㒛㒜㒝㒞㒟㒠㒡㒢㒣㒤㒥㒦㒧㒨㒩㒪㒫㒬㒭㒮㒯㒰㒱㒲㒳㒴㒵㒶㒷㒸㒹㒺㒻㒼㒽㒾㒿㓀㓁㓂㓃㓄㓅㓆㓇㓈㓉㓊㓋㓌㓍㓎㓏㓐㓑㓒㓓㓔㓕㓖㓗㓘㓙㓚㓛㓜㓝㓞㓟㓠㓡㓢㓣㓤㓥㓦㓧㓨㓩㓪㓫㓬㓭㓮㓯㓰㓱㓲㓳㓴㓵㓶㓷㓸㓹㓺㓻㓼㓽㓾㓿",
      "㖀㖁㖂㖃㖄㖅㖆㖇㖈㖉㖊㖋㖌㖍㖎㖏㖐㖑㖒㖓㖔㖕㖖㖗㖘㖙㖚㖛㖜㖝㖞㖟㖠㖡㖢㖣㖤㖥㖦㖧㖨㖩㖪㖫㖬㖭㖮㖯㖰㖱㖲㖳㖴㖵㖶㖷㖸㖹㖺㖻㖼㖽㖾㖿㗀㗁㗂㗃㗄㗅㗆㗇㗈㗉㗊㗋㗌㗍㗎㗏㗐㗑㗒㗓㗔㗕㗖㗗㗘㗙㗚㗛㗜㗝㗞㗟㗠㗡㗢㗣㗤㗥㗦㗧㗨㗩㗪㗫㗬㗭㗮㗯㗰㗱㗲㗳㗴㗵㗶㗷㗸㗹㗺㗻㗼㗽㗾㗿",
      "㚀㚁㚂㚃㚄㚅㚆㚇㚈㚉㚊㚋㚌㚍㚎㚏㚐㚑㚒㚓㚔㚕㚖㚗㚘㚙㚚㚛㚜㚝㚞㚟㚠㚡㚢㚣㚤㚥㚦㚧㚨㚩㚪㚫㚬㚭㚮㚯㚰㚱㚲㚳㚴㚵㚶㚷㚸㚹㚺㚻㚼㚽㚾㚿㛀㛁㛂㛃㛄㛅㛆㛇㛈㛉㛊㛋㛌㛍㛎㛏㛐㛑㛒㛓㛔㛕㛖㛗㛘㛙㛚㛛㛜㛝㛞㛟㛠㛡㛢㛣㛤㛥㛦㛧㛨㛩㛪㛫㛬㛭㛮㛯㛰㛱㛲㛳㛴㛵㛶㛷㛸㛹㛺㛻㛼㛽㛾㛿",
      "㞀㞁㞂㞃㞄㞅㞆㞇㞈㞉㞊㞋㞌㞍㞎㞏㞐㞑㞒㞓㞔㞕㞖㞗㞘㞙㞚㞛㞜㞝㞞㞟㞠㞡㞢㞣㞤㞥㞦㞧㞨㞩㞪㞫㞬㞭㞮㞯㞰㞱㞲㞳㞴㞵㞶㞷㞸㞹㞺㞻㞼㞽㞾㞿㟀㟁㟂㟃㟄㟅㟆㟇㟈㟉㟊㟋㟌㟍㟎㟏㟐㟑㟒㟓㟔㟕㟖㟗㟘㟙㟚㟛㟜㟝㟞㟟㟠㟡㟢㟣㟤㟥㟦㟧㟨㟩㟪㟫㟬㟭㟮㟯㟰㟱㟲㟳㟴㟵㟶㟷㟸㟹㟺㟻㟼㟽㟾㟿",
      "㢀㢁㢂㢃㢄㢅㢆㢇㢈㢉㢊㢋㢌㢍㢎㢏㢐㢑㢒㢓㢔㢕㢖㢗㢘㢙㢚㢛㢜㢝㢞㢟㢠㢡㢢㢣㢤㢥㢦㢧㢨㢩㢪㢫㢬㢭㢮㢯㢰㢱㢲㢳㢴㢵㢶㢷㢸㢹㢺㢻㢼㢽㢾㢿㣀㣁㣂㣃㣄㣅㣆㣇㣈㣉㣊㣋㣌㣍㣎㣏㣐㣑㣒㣓㣔㣕㣖㣗㣘㣙㣚㣛㣜㣝㣞㣟㣠㣡㣢㣣㣤㣥㣦㣧㣨㣩㣪㣫㣬㣭㣮㣯㣰㣱㣲㣳㣴㣵㣶㣷㣸㣹㣺㣻㣼㣽㣾㣿",
      "㦀㦁㦂㦃㦄㦅㦆㦇㦈㦉㦊㦋㦌㦍㦎㦏㦐㦑㦒㦓㦔㦕㦖㦗㦘㦙㦚㦛㦜㦝㦞㦟㦠㦡㦢㦣㦤㦥㦦㦧㦨㦩㦪㦫㦬㦭㦮㦯㦰㦱㦲㦳㦴㦵㦶㦷㦸㦹㦺㦻㦼㦽㦾㦿㧀㧁㧂㧃㧄㧅㧆㧇㧈㧉㧊㧋㧌㧍㧎㧏㧐㧑㧒㧓㧔㧕㧖㧗㧘㧙㧚㧛㧜㧝㧞㧟㧠㧡㧢㧣㧤㧥㧦㧧㧨㧩㧪㧫㧬㧭㧮㧯㧰㧱㧲㧳㧴㧵㧶㧷㧸㧹㧺㧻㧼㧽㧾㧿",
      "㪀㪁㪂㪃㪄㪅㪆㪇㪈㪉㪊㪋㪌㪍㪎㪏㪐㪑㪒㪓㪔㪕㪖㪗㪘㪙㪚㪛㪜㪝㪞㪟㪠㪡㪢㪣㪤㪥㪦㪧㪨㪩㪪㪫㪬㪭㪮㪯㪰㪱㪲㪳㪴㪵㪶㪷㪸㪹㪺㪻㪼㪽㪾㪿㫀㫁㫂㫃㫄㫅㫆㫇㫈㫉㫊㫋㫌㫍㫎㫏㫐㫑㫒㫓㫔㫕㫖㫗㫘㫙㫚㫛㫜㫝㫞㫟㫠㫡㫢㫣㫤㫥㫦㫧㫨㫩㫪㫫㫬㫭㫮㫯㫰㫱㫲㫳㫴㫵㫶㫷㫸㫹㫺㫻㫼㫽㫾㫿",
      "㮀㮁㮂㮃㮄㮅㮆㮇㮈㮉㮊㮋㮌㮍㮎㮏㮐㮑㮒㮓㮔㮕㮖㮗㮘㮙㮚㮛㮜㮝㮞㮟㮠㮡㮢㮣㮤㮥㮦㮧㮨㮩㮪㮫㮬㮭㮮㮯㮰㮱㮲㮳㮴㮵㮶㮷㮸㮹㮺㮻㮼㮽㮾㮿㯀㯁㯂㯃㯄㯅㯆㯇㯈㯉㯊㯋㯌㯍㯎㯏㯐㯑㯒㯓㯔㯕㯖㯗㯘㯙㯚㯛㯜㯝㯞㯟㯠㯡㯢㯣㯤㯥㯦㯧㯨㯩㯪㯫㯬㯭㯮㯯㯰㯱㯲㯳㯴㯵㯶㯷㯸㯹㯺㯻㯼㯽㯾㯿",
      "㲀㲁㲂㲃㲄㲅㲆㲇㲈㲉㲊㲋㲌㲍㲎㲏㲐㲑㲒㲓㲔㲕㲖㲗㲘㲙㲚㲛㲜㲝㲞㲟㲠㲡㲢㲣㲤㲥㲦㲧㲨㲩㲪㲫㲬㲭㲮㲯㲰㲱㲲㲳㲴㲵㲶㲷㲸㲹㲺㲻㲼㲽㲾㲿㳀㳁㳂㳃㳄㳅㳆㳇㳈㳉㳊㳋㳌㳍㳎㳏㳐㳑㳒㳓㳔㳕㳖㳗㳘㳙㳚㳛㳜㳝㳞㳟㳠㳡㳢㳣㳤㳥㳦㳧㳨㳩㳪㳫㳬㳭㳮㳯㳰㳱㳲㳳㳴㳵㳶㳷㳸㳹㳺㳻㳼㳽㳾㳿",
      "㶀㶁㶂㶃㶄㶅㶆㶇㶈㶉㶊㶋㶌㶍㶎㶏㶐㶑㶒㶓㶔㶕㶖㶗㶘㶙㶚㶛㶜㶝㶞㶟㶠㶡㶢㶣㶤㶥㶦㶧㶨㶩㶪㶫㶬㶭㶮㶯㶰㶱㶲㶳㶴㶵㶶㶷㶸㶹㶺㶻㶼㶽㶾㶿㷀㷁㷂㷃㷄㷅㷆㷇㷈㷉㷊㷋㷌㷍㷎㷏㷐㷑㷒㷓㷔㷕㷖㷗㷘㷙㷚㷛㷜㷝㷞㷟㷠㷡㷢㷣㷤㷥㷦㷧㷨㷩㷪㷫㷬㷭㷮㷯㷰㷱㷲㷳㷴㷵㷶㷷㷸㷹㷺㷻㷼㷽㷾㷿",
      "㺀㺁㺂㺃㺄㺅㺆㺇㺈㺉㺊㺋㺌㺍㺎㺏㺐㺑㺒㺓㺔㺕㺖㺗㺘㺙㺚㺛㺜㺝㺞㺟㺠㺡㺢㺣㺤㺥㺦㺧㺨㺩㺪㺫㺬㺭㺮㺯㺰㺱㺲㺳㺴㺵㺶㺷㺸㺹㺺㺻㺼㺽㺾㺿㻀㻁㻂㻃㻄㻅㻆㻇㻈㻉㻊㻋㻌㻍㻎㻏㻐㻑㻒㻓㻔㻕㻖㻗㻘㻙㻚㻛㻜㻝㻞㻟㻠㻡㻢㻣㻤㻥㻦㻧㻨㻩㻪㻫㻬㻭㻮㻯㻰㻱㻲㻳㻴㻵㻶㻷㻸㻹㻺㻻㻼㻽㻾㻿",
      "㾀㾁㾂㾃㾄㾅㾆㾇㾈㾉㾊㾋㾌㾍㾎㾏㾐㾑㾒㾓㾔㾕㾖㾗㾘㾙㾚㾛㾜㾝㾞㾟㾠㾡㾢㾣㾤㾥㾦㾧㾨㾩㾪㾫㾬㾭㾮㾯㾰㾱㾲㾳㾴㾵㾶㾷㾸㾹㾺㾻㾼㾽㾾㾿㿀㿁㿂㿃㿄㿅㿆㿇㿈㿉㿊㿋㿌㿍㿎㿏㿐㿑㿒㿓㿔㿕㿖㿗㿘㿙㿚㿛㿜㿝㿞㿟㿠㿡㿢㿣㿤㿥㿦㿧㿨㿩㿪㿫㿬㿭㿮㿯㿰㿱㿲㿳㿴㿵㿶㿷㿸㿹㿺㿻㿼㿽㿾㿿",
      "䂀䂁䂂䂃䂄䂅䂆䂇䂈䂉䂊䂋䂌䂍䂎䂏䂐䂑䂒䂓䂔䂕䂖䂗䂘䂙䂚䂛䂜䂝䂞䂟䂠䂡䂢䂣䂤䂥䂦䂧䂨䂩䂪䂫䂬䂭䂮䂯䂰䂱䂲䂳䂴䂵䂶䂷䂸䂹䂺䂻䂼䂽䂾䂿䃀䃁䃂䃃䃄䃅䃆䃇䃈䃉䃊䃋䃌䃍䃎䃏䃐䃑䃒䃓䃔䃕䃖䃗䃘䃙䃚䃛䃜䃝䃞䃟䃠䃡䃢䃣䃤䃥䃦䃧䃨䃩䃪䃫䃬䃭䃮䃯䃰䃱䃲䃳䃴䃵䃶䃷䃸䃹䃺䃻䃼䃽䃾䃿",
      "䆀䆁䆂䆃䆄䆅䆆䆇䆈䆉䆊䆋䆌䆍䆎䆏䆐䆑䆒䆓䆔䆕䆖䆗䆘䆙䆚䆛䆜䆝䆞䆟䆠䆡䆢䆣䆤䆥䆦䆧䆨䆩䆪䆫䆬䆭䆮䆯䆰䆱䆲䆳䆴䆵䆶䆷䆸䆹䆺䆻䆼䆽䆾䆿䇀䇁䇂䇃䇄䇅䇆䇇䇈䇉䇊䇋䇌䇍䇎䇏䇐䇑䇒䇓䇔䇕䇖䇗䇘䇙䇚䇛䇜䇝䇞䇟䇠䇡䇢䇣䇤䇥䇦䇧䇨䇩䇪䇫䇬䇭䇮䇯䇰䇱䇲䇳䇴䇵䇶䇷䇸䇹䇺䇻䇼䇽䇾䇿",
      "䊀䊁䊂䊃䊄䊅䊆䊇䊈䊉䊊䊋䊌䊍䊎䊏䊐䊑䊒䊓䊔䊕䊖䊗䊘䊙䊚䊛䊜䊝䊞䊟䊠䊡䊢䊣䊤䊥䊦䊧䊨䊩䊪䊫䊬䊭䊮䊯䊰䊱䊲䊳䊴䊵䊶䊷䊸䊹䊺䊻䊼䊽䊾䊿䋀䋁䋂䋃䋄䋅䋆䋇䋈䋉䋊䋋䋌䋍䋎䋏䋐䋑䋒䋓䋔䋕䋖䋗䋘䋙䋚䋛䋜䋝䋞䋟䋠䋡䋢䋣䋤䋥䋦䋧䋨䋩䋪䋫䋬䋭䋮䋯䋰䋱䋲䋳䋴䋵䋶䋷䋸䋹䋺䋻䋼䋽䋾䋿",
      "䎀䎁䎂䎃䎄䎅䎆䎇䎈䎉䎊䎋䎌䎍䎎䎏䎐䎑䎒䎓䎔䎕䎖䎗䎘䎙䎚䎛䎜䎝䎞䎟䎠䎡䎢䎣䎤䎥䎦䎧䎨䎩䎪䎫䎬䎭䎮䎯䎰䎱䎲䎳䎴䎵䎶䎷䎸䎹䎺䎻䎼䎽䎾䎿䏀䏁䏂䏃䏄䏅䏆䏇䏈䏉䏊䏋䏌䏍䏎䏏䏐䏑䏒䏓䏔䏕䏖䏗䏘䏙䏚䏛䏜䏝䏞䏟䏠䏡䏢䏣䏤䏥䏦䏧䏨䏩䏪䏫䏬䏭䏮䏯䏰䏱䏲䏳䏴䏵䏶䏷䏸䏹䏺䏻䏼䏽䏾䏿",
      "䒀䒁䒂䒃䒄䒅䒆䒇䒈䒉䒊䒋䒌䒍䒎䒏䒐䒑䒒䒓䒔䒕䒖䒗䒘䒙䒚䒛䒜䒝䒞䒟䒠䒡䒢䒣䒤䒥䒦䒧䒨䒩䒪䒫䒬䒭䒮䒯䒰䒱䒲䒳䒴䒵䒶䒷䒸䒹䒺䒻䒼䒽䒾䒿䓀䓁䓂䓃䓄䓅䓆䓇䓈䓉䓊䓋䓌䓍䓎䓏䓐䓑䓒䓓䓔䓕䓖䓗䓘䓙䓚䓛䓜䓝䓞䓟䓠䓡䓢䓣䓤䓥䓦䓧䓨䓩䓪䓫䓬䓭䓮䓯䓰䓱䓲䓳䓴䓵䓶䓷䓸䓹䓺䓻䓼䓽䓾䓿",
      "䖀䖁䖂䖃䖄䖅䖆䖇䖈䖉䖊䖋䖌䖍䖎䖏䖐䖑䖒䖓䖔䖕䖖䖗䖘䖙䖚䖛䖜䖝䖞䖟䖠䖡䖢䖣䖤䖥䖦䖧䖨䖩䖪䖫䖬䖭䖮䖯䖰䖱䖲䖳䖴䖵䖶䖷䖸䖹䖺䖻䖼䖽䖾䖿䗀䗁䗂䗃䗄䗅䗆䗇䗈䗉䗊䗋䗌䗍䗎䗏䗐䗑䗒䗓䗔䗕䗖䗗䗘䗙䗚䗛䗜䗝䗞䗟䗠䗡䗢䗣䗤䗥䗦䗧䗨䗩䗪䗫䗬䗭䗮䗯䗰䗱䗲䗳䗴䗵䗶䗷䗸䗹䗺䗻䗼䗽䗾䗿",
      "䚀䚁䚂䚃䚄䚅䚆䚇䚈䚉䚊䚋䚌䚍䚎䚏䚐䚑䚒䚓䚔䚕䚖䚗䚘䚙䚚䚛䚜䚝䚞䚟䚠䚡䚢䚣䚤䚥䚦䚧䚨䚩䚪䚫䚬䚭䚮䚯䚰䚱䚲䚳䚴䚵䚶䚷䚸䚹䚺䚻䚼䚽䚾䚿䛀䛁䛂䛃䛄䛅䛆䛇䛈䛉䛊䛋䛌䛍䛎䛏䛐䛑䛒䛓䛔䛕䛖䛗䛘䛙䛚䛛䛜䛝䛞䛟䛠䛡䛢䛣䛤䛥䛦䛧䛨䛩䛪䛫䛬䛭䛮䛯䛰䛱䛲䛳䛴䛵䛶䛷䛸䛹䛺䛻䛼䛽䛾䛿",
      "䞀䞁䞂䞃䞄䞅䞆䞇䞈䞉䞊䞋䞌䞍䞎䞏䞐䞑䞒䞓䞔䞕䞖䞗䞘䞙䞚䞛䞜䞝䞞䞟䞠䞡䞢䞣䞤䞥䞦䞧䞨䞩䞪䞫䞬䞭䞮䞯䞰䞱䞲䞳䞴䞵䞶䞷䞸䞹䞺䞻䞼䞽䞾䞿䟀䟁䟂䟃䟄䟅䟆䟇䟈䟉䟊䟋䟌䟍䟎䟏䟐䟑䟒䟓䟔䟕䟖䟗䟘䟙䟚䟛䟜䟝䟞䟟䟠䟡䟢䟣䟤䟥䟦䟧䟨䟩䟪䟫䟬䟭䟮䟯䟰䟱䟲䟳䟴䟵䟶䟷䟸䟹䟺䟻䟼䟽䟾䟿",
      "䢀䢁䢂䢃䢄䢅䢆䢇䢈䢉䢊䢋䢌䢍䢎䢏䢐䢑䢒䢓䢔䢕䢖䢗䢘䢙䢚䢛䢜䢝䢞䢟䢠䢡䢢䢣䢤䢥䢦䢧䢨䢩䢪䢫䢬䢭䢮䢯䢰䢱䢲䢳䢴䢵䢶䢷䢸䢹䢺䢻䢼䢽䢾䢿䣀䣁䣂䣃䣄䣅䣆䣇䣈䣉䣊䣋䣌䣍䣎䣏䣐䣑䣒䣓䣔䣕䣖䣗䣘䣙䣚䣛䣜䣝䣞䣟䣠䣡䣢䣣䣤䣥䣦䣧䣨䣩䣪䣫䣬䣭䣮䣯䣰䣱䣲䣳䣴䣵䣶䣷䣸䣹䣺䣻䣼䣽䣾䣿",
      "䦀䦁䦂䦃䦄䦅䦆䦇䦈䦉䦊䦋䦌䦍䦎䦏䦐䦑䦒䦓䦔䦕䦖䦗䦘䦙䦚䦛䦜䦝䦞䦟䦠䦡䦢䦣䦤䦥䦦䦧䦨䦩䦪䦫䦬䦭䦮䦯䦰䦱䦲䦳䦴䦵䦶䦷䦸䦹䦺䦻䦼䦽䦾䦿䧀䧁䧂䧃䧄䧅䧆䧇䧈䧉䧊䧋䧌䧍䧎䧏䧐䧑䧒䧓䧔䧕䧖䧗䧘䧙䧚䧛䧜䧝䧞䧟䧠䧡䧢䧣䧤䧥䧦䧧䧨䧩䧪䧫䧬䧭䧮䧯䧰䧱䧲䧳䧴䧵䧶䧷䧸䧹䧺䧻䧼䧽䧾䧿",
      "䪀䪁䪂䪃䪄䪅䪆䪇䪈䪉䪊䪋䪌䪍䪎䪏䪐䪑䪒䪓䪔䪕䪖䪗䪘䪙䪚䪛䪜䪝䪞䪟䪠䪡䪢䪣䪤䪥䪦䪧䪨䪩䪪䪫䪬䪭䪮䪯䪰䪱䪲䪳䪴䪵䪶䪷䪸䪹䪺䪻䪼䪽䪾䪿䫀䫁䫂䫃䫄䫅䫆䫇䫈䫉䫊䫋䫌䫍䫎䫏䫐䫑䫒䫓䫔䫕䫖䫗䫘䫙䫚䫛䫜䫝䫞䫟䫠䫡䫢䫣䫤䫥䫦䫧䫨䫩䫪䫫䫬䫭䫮䫯䫰䫱䫲䫳䫴䫵䫶䫷䫸䫹䫺䫻䫼䫽䫾䫿",
      "䮀䮁䮂䮃䮄䮅䮆䮇䮈䮉䮊䮋䮌䮍䮎䮏䮐䮑䮒䮓䮔䮕䮖䮗䮘䮙䮚䮛䮜䮝䮞䮟䮠䮡䮢䮣䮤䮥䮦䮧䮨䮩䮪䮫䮬䮭䮮䮯䮰䮱䮲䮳䮴䮵䮶䮷䮸䮹䮺䮻䮼䮽䮾䮿䯀䯁䯂䯃䯄䯅䯆䯇䯈䯉䯊䯋䯌䯍䯎䯏䯐䯑䯒䯓䯔䯕䯖䯗䯘䯙䯚䯛䯜䯝䯞䯟䯠䯡䯢䯣䯤䯥䯦䯧䯨䯩䯪䯫䯬䯭䯮䯯䯰䯱䯲䯳䯴䯵䯶䯷䯸䯹䯺䯻䯼䯽䯾䯿",
      "䲀䲁䲂䲃䲄䲅䲆䲇䲈䲉䲊䲋䲌䲍䲎䲏䲐䲑䲒䲓䲔䲕䲖䲗䲘䲙䲚䲛䲜䲝䲞䲟䲠䲡䲢䲣䲤䲥䲦䲧䲨䲩䲪䲫䲬䲭䲮䲯䲰䲱䲲䲳䲴䲵䲶䲷䲸䲹䲺䲻䲼䲽䲾䲿䳀䳁䳂䳃䳄䳅䳆䳇䳈䳉䳊䳋䳌䳍䳎䳏䳐䳑䳒䳓䳔䳕䳖䳗䳘䳙䳚䳛䳜䳝䳞䳟䳠䳡䳢䳣䳤䳥䳦䳧䳨䳩䳪䳫䳬䳭䳮䳯䳰䳱䳲䳳䳴䳵䳶䳷䳸䳹䳺䳻䳼䳽䳾䳿",
      "䶀䶁䶂䶃䶄䶅䶆䶇䶈䶉䶊䶋䶌䶍䶎䶏䶐䶑䶒䶓䶔䶕䶖䶗䶘䶙䶚䶛䶜䶝䶞䶟䶠䶡䶢䶣䶤䶥䶦䶧䶨䶩䶪䶫䶬䶭䶮䶯䶰䶱䶲䶳䶴䶵䶶䶷䶸䶹䶺䶻䶼䶽䶾䶿䷀䷁䷂䷃䷄䷅䷆䷇䷈䷉䷊䷋䷌䷍䷎䷏䷐䷑䷒䷓䷔䷕䷖䷗䷘䷙䷚䷛䷜䷝䷞䷟䷠䷡䷢䷣䷤䷥䷦䷧䷨䷩䷪䷫䷬䷭䷮䷯䷰䷱䷲䷳䷴䷵䷶䷷䷸䷹䷺䷻䷼䷽䷾䷿",
      "亀亁亂亃亄亅了亇予争亊事二亍于亏亐云互亓五井亖亗亘亙亚些亜亝亞亟亠亡亢亣交亥亦产亨亩亪享京亭亮亯亰亱亲亳亴亵亶亷亸亹人亻亼亽亾亿什仁仂仃仄仅仆仇仈仉今介仌仍从仏仐仑仒仓仔仕他仗付仙仚仛仜仝仞仟仠仡仢代令以仦仧仨仩仪仫们仭仮仯仰仱仲仳仴仵件价仸仹仺任仼份仾仿",
      "侀侁侂侃侄侅來侇侈侉侊例侌侍侎侏侐侑侒侓侔侕侖侗侘侙侚供侜依侞侟侠価侢侣侤侥侦侧侨侩侪侫侬侭侮侯侰侱侲侳侴侵侶侷侸侹侺侻侼侽侾便俀俁係促俄俅俆俇俈俉俊俋俌俍俎俏俐俑俒俓俔俕俖俗俘俙俚俛俜保俞俟俠信俢俣俤俥俦俧俨俩俪俫俬俭修俯俰俱俲俳俴俵俶俷俸俹俺俻俼俽俾俿",
      "傀傁傂傃傄傅傆傇傈傉傊傋傌傍傎傏傐傑傒傓傔傕傖傗傘備傚傛傜傝傞傟傠傡傢傣傤傥傦傧储傩傪傫催傭傮傯傰傱傲傳傴債傶傷傸傹傺傻傼傽傾傿僀僁僂僃僄僅僆僇僈僉僊僋僌働僎像僐僑僒僓僔僕僖僗僘僙僚僛僜僝僞僟僠僡僢僣僤僥僦僧僨僩僪僫僬僭僮僯僰僱僲僳僴僵僶僷僸價僺僻僼僽僾僿",
      "冀冁冂冃冄内円冇冈冉冊冋册再冎冏冐冑冒冓冔冕冖冗冘写冚军农冝冞冟冠冡冢冣冤冥冦冧冨冩冪冫冬冭冮冯冰冱冲决冴况冶冷冸冹冺冻冼冽冾冿净凁凂凃凄凅准凇凈凉凊凋凌凍凎减凐凑凒凓凔凕凖凗凘凙凚凛凜凝凞凟几凡凢凣凤凥処凧凨凩凪凫凬凭凮凯凰凱凲凳凴凵凶凷凸凹出击凼函凾凿",
      "劀劁劂劃劄劅劆劇劈劉劊劋劌劍劎劏劐劑劒劓劔劕劖劗劘劙劚力劜劝办功加务劢劣劤劥劦劧动助努劫劬劭劮劯劰励劲劳労劵劶劷劸効劺劻劼劽劾势勀勁勂勃勄勅勆勇勈勉勊勋勌勍勎勏勐勑勒勓勔動勖勗勘務勚勛勜勝勞募勠勡勢勣勤勥勦勧勨勩勪勫勬勭勮勯勰勱勲勳勴勵勶勷勸勹勺勻勼勽勾勿",
      "厀厁厂厃厄厅历厇厈厉厊压厌厍厎厏厐厑厒厓厔厕厖厗厘厙厚厛厜厝厞原厠厡厢厣厤厥厦厧厨厩厪厫厬厭厮厯厰厱厲厳厴厵厶厷厸厹厺去厼厽厾县叀叁参參叄叅叆叇又叉及友双反収叏叐发叒叓叔叕取受变叙叚叛叜叝叞叟叠叡叢口古句另叧叨叩只叫召叭叮可台叱史右叴叵叶号司叹叺叻叼叽叾叿",
      "咀咁咂咃咄咅咆咇咈咉咊咋和咍咎咏咐咑咒咓咔咕咖咗咘咙咚咛咜咝咞咟咠咡咢咣咤咥咦咧咨咩咪咫咬咭咮咯咰咱咲咳咴咵咶咷咸咹咺咻咼咽咾咿哀品哂哃哄哅哆哇哈哉哊哋哌响哎哏哐哑哒哓哔哕哖哗哘哙哚哛哜哝哞哟哠員哢哣哤哥哦哧哨哩哪哫哬哭哮哯哰哱哲哳哴哵哶哷哸哹哺哻哼哽哾哿",
      "喀喁喂喃善喅喆喇喈喉喊喋喌喍喎喏喐喑喒喓喔喕喖喗喘喙喚喛喜喝喞喟喠喡喢喣喤喥喦喧喨喩喪喫喬喭單喯喰喱喲喳喴喵営喷喸喹喺喻喼喽喾喿嗀嗁嗂嗃嗄嗅嗆嗇嗈嗉嗊嗋嗌嗍嗎嗏嗐嗑嗒嗓嗔嗕嗖嗗嗘嗙嗚嗛嗜嗝嗞嗟嗠嗡嗢嗣嗤嗥嗦嗧嗨嗩嗪嗫嗬嗭嗮嗯嗰嗱嗲嗳嗴嗵嗶嗷嗸嗹嗺嗻嗼嗽嗾嗿",
      "嚀嚁嚂嚃嚄嚅嚆嚇嚈嚉嚊嚋嚌嚍嚎嚏嚐嚑嚒嚓嚔嚕嚖嚗嚘嚙嚚嚛嚜嚝嚞嚟嚠嚡嚢嚣嚤嚥嚦嚧嚨嚩嚪嚫嚬嚭嚮嚯嚰嚱嚲嚳嚴嚵嚶嚷嚸嚹嚺嚻嚼嚽嚾嚿囀囁囂囃囄囅囆囇囈囉囊囋囌囍囎囏囐囑囒囓囔囕囖囗囘囙囚四囜囝回囟因囡团団囤囥囦囧囨囩囪囫囬园囮囯困囱囲図围囵囶囷囸囹固囻囼国图囿",
      "垀垁垂垃垄垅垆垇垈垉垊型垌垍垎垏垐垑垒垓垔垕垖垗垘垙垚垛垜垝垞垟垠垡垢垣垤垥垦垧垨垩垪垫垬垭垮垯垰垱垲垳垴垵垶垷垸垹垺垻垼垽垾垿埀埁埂埃埄埅埆埇埈埉埊埋埌埍城埏埐埑埒埓埔埕埖埗埘埙埚埛埜埝埞域埠埡埢埣埤埥埦埧埨埩埪埫埬埭埮埯埰埱埲埳埴埵埶執埸培基埻埼埽埾埿",
      "墀墁墂境墄墅墆墇墈墉墊墋墌墍墎墏墐墑墒墓墔墕墖増墘墙墚墛墜墝增墟墠墡墢墣墤墥墦墧墨墩墪墫墬墭墮墯墰墱墲墳墴墵墶墷墸墹墺墻墼墽墾墿壀壁壂壃壄壅壆壇壈壉壊壋壌壍壎壏壐壑壒壓壔壕壖壗壘壙壚壛壜壝壞壟壠壡壢壣壤壥壦壧壨壩壪士壬壭壮壯声壱売壳壴壵壶壷壸壹壺壻壼壽壾壿",
      "妀妁如妃妄妅妆妇妈妉妊妋妌妍妎妏妐妑妒妓妔妕妖妗妘妙妚妛妜妝妞妟妠妡妢妣妤妥妦妧妨妩妪妫妬妭妮妯妰妱妲妳妴妵妶妷妸妹妺妻妼妽妾妿姀姁姂姃姄姅姆姇姈姉姊始姌姍姎姏姐姑姒姓委姕姖姗姘姙姚姛姜姝姞姟姠姡姢姣姤姥姦姧姨姩姪姫姬姭姮姯姰姱姲姳姴姵姶姷姸姹姺姻姼姽姾姿",
      "媀媁媂媃媄媅媆媇媈媉媊媋媌媍媎媏媐媑媒媓媔媕媖媗媘媙媚媛媜媝媞媟媠媡媢媣媤媥媦媧媨媩媪媫媬媭媮媯媰媱媲媳媴媵媶媷媸媹媺媻媼媽媾媿嫀嫁嫂嫃嫄嫅嫆嫇嫈嫉嫊嫋嫌嫍嫎嫏嫐嫑嫒嫓嫔嫕嫖嫗嫘嫙嫚嫛嫜嫝嫞嫟嫠嫡嫢嫣嫤嫥嫦嫧嫨嫩嫪嫫嫬嫭嫮嫯嫰嫱嫲嫳嫴嫵嫶嫷嫸嫹嫺嫻嫼嫽嫾嫿",
      "宀宁宂它宄宅宆宇守安宊宋完宍宎宏宐宑宒宓宔宕宖宗官宙定宛宜宝实実宠审客宣室宥宦宧宨宩宪宫宬宭宮宯宰宱宲害宴宵家宷宸容宺宻宼宽宾宿寀寁寂寃寄寅密寇寈寉寊寋富寍寎寏寐寑寒寓寔寕寖寗寘寙寚寛寜寝寞察寠寡寢寣寤寥實寧寨審寪寫寬寭寮寯寰寱寲寳寴寵寶寷寸对寺寻导寽対寿",
      "岀岁岂岃岄岅岆岇岈岉岊岋岌岍岎岏岐岑岒岓岔岕岖岗岘岙岚岛岜岝岞岟岠岡岢岣岤岥岦岧岨岩岪岫岬岭岮岯岰岱岲岳岴岵岶岷岸岹岺岻岼岽岾岿峀峁峂峃峄峅峆峇峈峉峊峋峌峍峎峏峐峑峒峓峔峕峖峗峘峙峚峛峜峝峞峟峠峡峢峣峤峥峦峧峨峩峪峫峬峭峮峯峰峱峲峳峴峵島峷峸峹峺峻峼峽峾峿",
      "嶀嶁嶂嶃嶄嶅嶆嶇嶈嶉嶊嶋嶌嶍嶎嶏嶐嶑嶒嶓嶔嶕嶖嶗嶘嶙嶚嶛嶜嶝嶞嶟嶠嶡嶢嶣嶤嶥嶦嶧嶨嶩嶪嶫嶬嶭嶮嶯嶰嶱嶲嶳嶴嶵嶶嶷嶸嶹嶺嶻嶼嶽嶾嶿巀巁巂巃巄巅巆巇巈巉巊巋巌巍巎巏巐巑巒巓巔巕巖巗巘巙巚巛巜川州巟巠巡巢巣巤工左巧巨巩巪巫巬巭差巯巰己已巳巴巵巶巷巸巹巺巻巼巽巾巿",
      "庀庁庂広庄庅庆庇庈庉床庋庌庍庎序庐庑庒库应底庖店庘庙庚庛府庝庞废庠庡庢庣庤庥度座庨庩庪庫庬庭庮庯庰庱庲庳庴庵庶康庸庹庺庻庼庽庾庿廀廁廂廃廄廅廆廇廈廉廊廋廌廍廎廏廐廑廒廓廔廕廖廗廘廙廚廛廜廝廞廟廠廡廢廣廤廥廦廧廨廩廪廫廬廭廮廯廰廱廲廳廴廵延廷廸廹建廻廼廽廾廿",
      "往征徂徃径待徆徇很徉徊律後徍徎徏徐徑徒従徔徕徖得徘徙徚徛徜徝從徟徠御徢徣徤徥徦徧徨復循徫徬徭微徯徰徱徲徳徴徵徶德徸徹徺徻徼徽徾徿忀忁忂心忄必忆忇忈忉忊忋忌忍忎忏忐忑忒忓忔忕忖志忘忙忚忛応忝忞忟忠忡忢忣忤忥忦忧忨忩忪快忬忭忮忯忰忱忲忳忴念忶忷忸忹忺忻忼忽忾忿",
      "悀悁悂悃悄悅悆悇悈悉悊悋悌悍悎悏悐悑悒悓悔悕悖悗悘悙悚悛悜悝悞悟悠悡悢患悤悥悦悧您悩悪悫悬悭悮悯悰悱悲悳悴悵悶悷悸悹悺悻悼悽悾悿惀惁惂惃惄情惆惇惈惉惊惋惌惍惎惏惐惑惒惓惔惕惖惗惘惙惚惛惜惝惞惟惠惡惢惣惤惥惦惧惨惩惪惫惬惭惮惯惰惱惲想惴惵惶惷惸惹惺惻惼惽惾惿",
      "憀憁憂憃憄憅憆憇憈憉憊憋憌憍憎憏憐憑憒憓憔憕憖憗憘憙憚憛憜憝憞憟憠憡憢憣憤憥憦憧憨憩憪憫憬憭憮憯憰憱憲憳憴憵憶憷憸憹憺憻憼憽憾憿懀懁懂懃懄懅懆懇懈應懊懋懌懍懎懏懐懑懒懓懔懕懖懗懘懙懚懛懜懝懞懟懠懡懢懣懤懥懦懧懨懩懪懫懬懭懮懯懰懱懲懳懴懵懶懷懸懹懺懻懼懽懾懿",
      "技抁抂抃抄抅抆抇抈抉把抋抌抍抎抏抐抑抒抓抔投抖抗折抙抚抛抜抝択抟抠抡抢抣护报抦抧抨抩抪披抬抭抮抯抰抱抲抳抴抵抶抷抸抹抺抻押抽抾抿拀拁拂拃拄担拆拇拈拉拊拋拌拍拎拏拐拑拒拓拔拕拖拗拘拙拚招拜拝拞拟拠拡拢拣拤拥拦拧拨择拪拫括拭拮拯拰拱拲拳拴拵拶拷拸拹拺拻拼拽拾拿",
      "掀掁掂掃掄掅掆掇授掉掊掋掌掍掎掏掐掑排掓掔掕掖掗掘掙掚掛掜掝掞掟掠採探掣掤接掦控推掩措掫掬掭掮掯掰掱掲掳掴掵掶掷掸掹掺掻掼掽掾掿揀揁揂揃揄揅揆揇揈揉揊揋揌揍揎描提揑插揓揔揕揖揗揘揙揚換揜揝揞揟揠握揢揣揤揥揦揧揨揩揪揫揬揭揮揯揰揱揲揳援揵揶揷揸揹揺揻揼揽揾揿",
      "撀撁撂撃撄撅撆撇撈撉撊撋撌撍撎撏撐撑撒撓撔撕撖撗撘撙撚撛撜撝撞撟撠撡撢撣撤撥撦撧撨撩撪撫撬播撮撯撰撱撲撳撴撵撶撷撸撹撺撻撼撽撾撿擀擁擂擃擄擅擆擇擈擉擊擋擌操擎擏擐擑擒擓擔擕擖擗擘擙據擛擜擝擞擟擠擡擢擣擤擥擦擧擨擩擪擫擬擭擮擯擰擱擲擳擴擵擶擷擸擹擺擻擼擽擾擿",
      "斀斁斂斃斄斅斆文斈斉斊斋斌斍斎斏斐斑斒斓斔斕斖斗斘料斚斛斜斝斞斟斠斡斢斣斤斥斦斧斨斩斪斫斬断斮斯新斱斲斳斴斵斶斷斸方斺斻於施斾斿旀旁旂旃旄旅旆旇旈旉旊旋旌旍旎族旐旑旒旓旔旕旖旗旘旙旚旛旜旝旞旟无旡既旣旤日旦旧旨早旪旫旬旭旮旯旰旱旲旳旴旵时旷旸旹旺旻旼旽旾旿",
      "暀暁暂暃暄暅暆暇暈暉暊暋暌暍暎暏暐暑暒暓暔暕暖暗暘暙暚暛暜暝暞暟暠暡暢暣暤暥暦暧暨暩暪暫暬暭暮暯暰暱暲暳暴暵暶暷暸暹暺暻暼暽暾暿曀曁曂曃曄曅曆曇曈曉曊曋曌曍曎曏曐曑曒曓曔曕曖曗曘曙曚曛曜曝曞曟曠曡曢曣曤曥曦曧曨曩曪曫曬曭曮曯曰曱曲曳更曵曶曷書曹曺曻曼曽曾替",
      "枀极枂枃构枅枆枇枈枉枊枋枌枍枎枏析枑枒枓枔枕枖林枘枙枚枛果枝枞枟枠枡枢枣枤枥枦枧枨枩枪枫枬枭枮枯枰枱枲枳枴枵架枷枸枹枺枻枼枽枾枿柀柁柂柃柄柅柆柇柈柉柊柋柌柍柎柏某柑柒染柔柕柖柗柘柙柚柛柜柝柞柟柠柡柢柣柤查柦柧柨柩柪柫柬柭柮柯柰柱柲柳柴柵柶柷柸柹柺査柼柽柾柿",
      "梀梁梂梃梄梅梆梇梈梉梊梋梌梍梎梏梐梑梒梓梔梕梖梗梘梙梚梛梜條梞梟梠梡梢梣梤梥梦梧梨梩梪梫梬梭梮梯械梱梲梳梴梵梶梷梸梹梺梻梼梽梾梿检棁棂棃棄棅棆棇棈棉棊棋棌棍棎棏棐棑棒棓棔棕棖棗棘棙棚棛棜棝棞棟棠棡棢棣棤棥棦棧棨棩棪棫棬棭森棯棰棱棲棳棴棵棶棷棸棹棺棻棼棽棾棿",
      "榀榁概榃榄榅榆榇榈榉榊榋榌榍榎榏榐榑榒榓榔榕榖榗榘榙榚榛榜榝榞榟榠榡榢榣榤榥榦榧榨榩榪榫榬榭榮榯榰榱榲榳榴榵榶榷榸榹榺榻榼榽榾榿槀槁槂槃槄槅槆槇槈槉槊構槌槍槎槏槐槑槒槓槔槕槖槗様槙槚槛槜槝槞槟槠槡槢槣槤槥槦槧槨槩槪槫槬槭槮槯槰槱槲槳槴槵槶槷槸槹槺槻槼槽槾槿",
      "檀檁檂檃檄檅檆檇檈檉檊檋檌檍檎檏檐檑檒檓檔檕檖檗檘檙檚檛檜檝檞檟檠檡檢檣檤檥檦檧檨檩檪檫檬檭檮檯檰檱檲檳檴檵檶檷檸檹檺檻檼檽檾檿櫀櫁櫂櫃櫄櫅櫆櫇櫈櫉櫊櫋櫌櫍櫎櫏櫐櫑櫒櫓櫔櫕櫖櫗櫘櫙櫚櫛櫜櫝櫞櫟櫠櫡櫢櫣櫤櫥櫦櫧櫨櫩櫪櫫櫬櫭櫮櫯櫰櫱櫲櫳櫴櫵櫶櫷櫸櫹櫺櫻櫼櫽櫾櫿",
      "殀殁殂殃殄殅殆殇殈殉殊残殌殍殎殏殐殑殒殓殔殕殖殗殘殙殚殛殜殝殞殟殠殡殢殣殤殥殦殧殨殩殪殫殬殭殮殯殰殱殲殳殴段殶殷殸殹殺殻殼殽殾殿毀毁毂毃毄毅毆毇毈毉毊毋毌母毎每毐毑毒毓比毕毖毗毘毙毚毛毜毝毞毟毠毡毢毣毤毥毦毧毨毩毪毫毬毭毮毯毰毱毲毳毴毵毶毷毸毹毺毻毼毽毾毿",
      "沀沁沂沃沄沅沆沇沈沉沊沋沌沍沎沏沐沑沒沓沔沕沖沗沘沙沚沛沜沝沞沟沠没沢沣沤沥沦沧沨沩沪沫沬沭沮沯沰沱沲河沴沵沶沷沸油沺治沼沽沾沿泀況泂泃泄泅泆泇泈泉泊泋泌泍泎泏泐泑泒泓泔法泖泗泘泙泚泛泜泝泞泟泠泡波泣泤泥泦泧注泩泪泫泬泭泮泯泰泱泲泳泴泵泶泷泸泹泺泻泼泽泾泿",
      "涀涁涂涃涄涅涆涇消涉涊涋涌涍涎涏涐涑涒涓涔涕涖涗涘涙涚涛涜涝涞涟涠涡涢涣涤涥润涧涨涩涪涫涬涭涮涯涰涱液涳涴涵涶涷涸涹涺涻涼涽涾涿淀淁淂淃淄淅淆淇淈淉淊淋淌淍淎淏淐淑淒淓淔淕淖淗淘淙淚淛淜淝淞淟淠淡淢淣淤淥淦淧淨淩淪淫淬淭淮淯淰深淲淳淴淵淶混淸淹淺添淼淽淾淿",
      "満溁溂溃溄溅溆溇溈溉溊溋溌溍溎溏源溑溒溓溔溕準溗溘溙溚溛溜溝溞溟溠溡溢溣溤溥溦溧溨溩溪溫溬溭溮溯溰溱溲溳溴溵溶溷溸溹溺溻溼溽溾溿滀滁滂滃滄滅滆滇滈滉滊滋滌滍滎滏滐滑滒滓滔滕滖滗滘滙滚滛滜滝滞滟滠满滢滣滤滥滦滧滨滩滪滫滬滭滮滯滰滱滲滳滴滵滶滷滸滹滺滻滼滽滾滿",
      "澀澁澂澃澄澅澆澇澈澉澊澋澌澍澎澏澐澑澒澓澔澕澖澗澘澙澚澛澜澝澞澟澠澡澢澣澤澥澦澧澨澩澪澫澬澭澮澯澰澱澲澳澴澵澶澷澸澹澺澻澼澽澾澿激濁濂濃濄濅濆濇濈濉濊濋濌濍濎濏濐濑濒濓濔濕濖濗濘濙濚濛濜濝濞濟濠濡濢濣濤濥濦濧濨濩濪濫濬濭濮濯濰濱濲濳濴濵濶濷濸濹濺濻濼濽濾濿",
      "炀炁炂炃炄炅炆炇炈炉炊炋炌炍炎炏炐炑炒炓炔炕炖炗炘炙炚炛炜炝炞炟炠炡炢炣炤炥炦炧炨炩炪炫炬炭炮炯炰炱炲炳炴炵炶炷炸点為炻炼炽炾炿烀烁烂烃烄烅烆烇烈烉烊烋烌烍烎烏烐烑烒烓烔烕烖烗烘烙烚烛烜烝烞烟烠烡烢烣烤烥烦烧烨烩烪烫烬热烮烯烰烱烲烳烴烵烶烷烸烹烺烻烼烽烾烿",
      "熀熁熂熃熄熅熆熇熈熉熊熋熌熍熎熏熐熑熒熓熔熕熖熗熘熙熚熛熜熝熞熟熠熡熢熣熤熥熦熧熨熩熪熫熬熭熮熯熰熱熲熳熴熵熶熷熸熹熺熻熼熽熾熿燀燁燂燃燄燅燆燇燈燉燊燋燌燍燎燏燐燑燒燓燔燕燖燗燘燙燚燛燜燝燞營燠燡燢燣燤燥燦燧燨燩燪燫燬燭燮燯燰燱燲燳燴燵燶燷燸燹燺燻燼燽燾燿",
      "犀犁犂犃犄犅犆犇犈犉犊犋犌犍犎犏犐犑犒犓犔犕犖犗犘犙犚犛犜犝犞犟犠犡犢犣犤犥犦犧犨犩犪犫犬犭犮犯犰犱犲犳犴犵状犷犸犹犺犻犼犽犾犿狀狁狂狃狄狅狆狇狈狉狊狋狌狍狎狏狐狑狒狓狔狕狖狗狘狙狚狛狜狝狞狟狠狡狢狣狤狥狦狧狨狩狪狫独狭狮狯狰狱狲狳狴狵狶狷狸狹狺狻狼狽狾狿",
      "玀玁玂玃玄玅玆率玈玉玊王玌玍玎玏玐玑玒玓玔玕玖玗玘玙玚玛玜玝玞玟玠玡玢玣玤玥玦玧玨玩玪玫玬玭玮环现玱玲玳玴玵玶玷玸玹玺玻玼玽玾玿珀珁珂珃珄珅珆珇珈珉珊珋珌珍珎珏珐珑珒珓珔珕珖珗珘珙珚珛珜珝珞珟珠珡珢珣珤珥珦珧珨珩珪珫珬班珮珯珰珱珲珳珴珵珶珷珸珹珺珻珼珽現珿",
      "璀璁璂璃璄璅璆璇璈璉璊璋璌璍璎璏璐璑璒璓璔璕璖璗璘璙璚璛璜璝璞璟璠璡璢璣璤璥璦璧璨璩璪璫璬璭璮璯環璱璲璳璴璵璶璷璸璹璺璻璼璽璾璿瓀瓁瓂瓃瓄瓅瓆瓇瓈瓉瓊瓋瓌瓍瓎瓏瓐瓑瓒瓓瓔瓕瓖瓗瓘瓙瓚瓛瓜瓝瓞瓟瓠瓡瓢瓣瓤瓥瓦瓧瓨瓩瓪瓫瓬瓭瓮瓯瓰瓱瓲瓳瓴瓵瓶瓷瓸瓹瓺瓻瓼瓽瓾瓿",
      "疀疁疂疃疄疅疆疇疈疉疊疋疌疍疎疏疐疑疒疓疔疕疖疗疘疙疚疛疜疝疞疟疠疡疢疣疤疥疦疧疨疩疪疫疬疭疮疯疰疱疲疳疴疵疶疷疸疹疺疻疼疽疾疿痀痁痂痃痄病痆症痈痉痊痋痌痍痎痏痐痑痒痓痔痕痖痗痘痙痚痛痜痝痞痟痠痡痢痣痤痥痦痧痨痩痪痫痬痭痮痯痰痱痲痳痴痵痶痷痸痹痺痻痼痽痾痿",
      "皀皁皂皃的皅皆皇皈皉皊皋皌皍皎皏皐皑皒皓皔皕皖皗皘皙皚皛皜皝皞皟皠皡皢皣皤皥皦皧皨皩皪皫皬皭皮皯皰皱皲皳皴皵皶皷皸皹皺皻皼皽皾皿盀盁盂盃盄盅盆盇盈盉益盋盌盍盎盏盐监盒盓盔盕盖盗盘盙盚盛盜盝盞盟盠盡盢監盤盥盦盧盨盩盪盫盬盭目盯盰盱盲盳直盵盶盷相盹盺盻盼盽盾盿",
      "瞀瞁瞂瞃瞄瞅瞆瞇瞈瞉瞊瞋瞌瞍瞎瞏瞐瞑瞒瞓瞔瞕瞖瞗瞘瞙瞚瞛瞜瞝瞞瞟瞠瞡瞢瞣瞤瞥瞦瞧瞨瞩瞪瞫瞬瞭瞮瞯瞰瞱瞲瞳瞴瞵瞶瞷瞸瞹瞺瞻瞼瞽瞾瞿矀矁矂矃矄矅矆矇矈矉矊矋矌矍矎矏矐矑矒矓矔矕矖矗矘矙矚矛矜矝矞矟矠矡矢矣矤知矦矧矨矩矪矫矬短矮矯矰矱矲石矴矵矶矷矸矹矺矻矼矽矾矿",
      "碀碁碂碃碄碅碆碇碈碉碊碋碌碍碎碏碐碑碒碓碔碕碖碗碘碙碚碛碜碝碞碟碠碡碢碣碤碥碦碧碨碩碪碫碬碭碮碯碰碱碲碳碴碵碶碷碸碹確碻碼碽碾碿磀磁磂磃磄磅磆磇磈磉磊磋磌磍磎磏磐磑磒磓磔磕磖磗磘磙磚磛磜磝磞磟磠磡磢磣磤磥磦磧磨磩磪磫磬磭磮磯磰磱磲磳磴磵磶磷磸磹磺磻磼磽磾磿",
      "禀禁禂禃禄禅禆禇禈禉禊禋禌禍禎福禐禑禒禓禔禕禖禗禘禙禚禛禜禝禞禟禠禡禢禣禤禥禦禧禨禩禪禫禬禭禮禯禰禱禲禳禴禵禶禷禸禹禺离禼禽禾禿秀私秂秃秄秅秆秇秈秉秊秋秌种秎秏秐科秒秓秔秕秖秗秘秙秚秛秜秝秞租秠秡秢秣秤秥秦秧秨秩秪秫秬秭秮积称秱秲秳秴秵秶秷秸秹秺移秼秽秾秿",
      "窀突窂窃窄窅窆窇窈窉窊窋窌窍窎窏窐窑窒窓窔窕窖窗窘窙窚窛窜窝窞窟窠窡窢窣窤窥窦窧窨窩窪窫窬窭窮窯窰窱窲窳窴窵窶窷窸窹窺窻窼窽窾窿竀竁竂竃竄竅竆竇竈竉竊立竌竍竎竏竐竑竒竓竔竕竖竗竘站竚竛竜竝竞竟章竡竢竣竤童竦竧竨竩竪竫竬竭竮端竰竱竲竳竴竵競竷竸竹竺竻竼竽竾竿",
      "简箁箂箃箄箅箆箇箈箉箊箋箌箍箎箏箐箑箒箓箔箕箖算箘箙箚箛箜箝箞箟箠管箢箣箤箥箦箧箨箩箪箫箬箭箮箯箰箱箲箳箴箵箶箷箸箹箺箻箼箽箾箿節篁篂篃範篅篆篇篈築篊篋篌篍篎篏篐篑篒篓篔篕篖篗篘篙篚篛篜篝篞篟篠篡篢篣篤篥篦篧篨篩篪篫篬篭篮篯篰篱篲篳篴篵篶篷篸篹篺篻篼篽篾篿",
      "粀粁粂粃粄粅粆粇粈粉粊粋粌粍粎粏粐粑粒粓粔粕粖粗粘粙粚粛粜粝粞粟粠粡粢粣粤粥粦粧粨粩粪粫粬粭粮粯粰粱粲粳粴粵粶粷粸粹粺粻粼粽精粿糀糁糂糃糄糅糆糇糈糉糊糋糌糍糎糏糐糑糒糓糔糕糖糗糘糙糚糛糜糝糞糟糠糡糢糣糤糥糦糧糨糩糪糫糬糭糮糯糰糱糲糳糴糵糶糷糸糹糺系糼糽糾糿",
      "綀綁綂綃綄綅綆綇綈綉綊綋綌綍綎綏綐綑綒經綔綕綖綗綘継続綛綜綝綞綟綠綡綢綣綤綥綦綧綨綩綪綫綬維綮綯綰綱網綳綴綵綶綷綸綹綺綻綼綽綾綿緀緁緂緃緄緅緆緇緈緉緊緋緌緍緎総緐緑緒緓緔緕緖緗緘緙線緛緜緝緞緟締緡緢緣緤緥緦緧編緩緪緫緬緭緮緯緰緱緲緳練緵緶緷緸緹緺緻緼緽緾緿",
      "纀纁纂纃纄纅纆纇纈纉纊纋續纍纎纏纐纑纒纓纔纕纖纗纘纙纚纛纜纝纞纟纠纡红纣纤纥约级纨纩纪纫纬纭纮纯纰纱纲纳纴纵纶纷纸纹纺纻纼纽纾线绀绁绂练组绅细织终绉绊绋绌绍绎经绐绑绒结绔绕绖绗绘给绚绛络绝绞统绠绡绢绣绤绥绦继绨绩绪绫绬续绮绯绰绱绲绳维绵绶绷绸绹绺绻综绽绾绿",
      "羀羁羂羃羄羅羆羇羈羉羊羋羌羍美羏羐羑羒羓羔羕羖羗羘羙羚羛羜羝羞羟羠羡羢羣群羥羦羧羨義羪羫羬羭羮羯羰羱羲羳羴羵羶羷羸羹羺羻羼羽羾羿翀翁翂翃翄翅翆翇翈翉翊翋翌翍翎翏翐翑習翓翔翕翖翗翘翙翚翛翜翝翞翟翠翡翢翣翤翥翦翧翨翩翪翫翬翭翮翯翰翱翲翳翴翵翶翷翸翹翺翻翼翽翾翿",
      "肀肁肂肃肄肅肆肇肈肉肊肋肌肍肎肏肐肑肒肓肔肕肖肗肘肙肚肛肜肝肞肟肠股肢肣肤肥肦肧肨肩肪肫肬肭肮肯肰肱育肳肴肵肶肷肸肹肺肻肼肽肾肿胀胁胂胃胄胅胆胇胈胉胊胋背胍胎胏胐胑胒胓胔胕胖胗胘胙胚胛胜胝胞胟胠胡胢胣胤胥胦胧胨胩胪胫胬胭胮胯胰胱胲胳胴胵胶胷胸胹胺胻胼能胾胿",
      "膀膁膂膃膄膅膆膇膈膉膊膋膌膍膎膏膐膑膒膓膔膕膖膗膘膙膚膛膜膝膞膟膠膡膢膣膤膥膦膧膨膩膪膫膬膭膮膯膰膱膲膳膴膵膶膷膸膹膺膻膼膽膾膿臀臁臂臃臄臅臆臇臈臉臊臋臌臍臎臏臐臑臒臓臔臕臖臗臘臙臚臛臜臝臞臟臠臡臢臣臤臥臦臧臨臩自臫臬臭臮臯臰臱臲至致臵臶臷臸臹臺臻臼臽臾臿",
      "芀芁节芃芄芅芆芇芈芉芊芋芌芍芎芏芐芑芒芓芔芕芖芗芘芙芚芛芜芝芞芟芠芡芢芣芤芥芦芧芨芩芪芫芬芭芮芯芰花芲芳芴芵芶芷芸芹芺芻芼芽芾芿苀苁苂苃苄苅苆苇苈苉苊苋苌苍苎苏苐苑苒苓苔苕苖苗苘苙苚苛苜苝苞苟苠苡苢苣苤若苦苧苨苩苪苫苬苭苮苯苰英苲苳苴苵苶苷苸苹苺苻苼苽苾苿",
      "莀莁莂莃莄莅莆莇莈莉莊莋莌莍莎莏莐莑莒莓莔莕莖莗莘莙莚莛莜莝莞莟莠莡莢莣莤莥莦莧莨莩莪莫莬莭莮莯莰莱莲莳莴莵莶获莸莹莺莻莼莽莾莿菀菁菂菃菄菅菆菇菈菉菊菋菌菍菎菏菐菑菒菓菔菕菖菗菘菙菚菛菜菝菞菟菠菡菢菣菤菥菦菧菨菩菪菫菬菭菮華菰菱菲菳菴菵菶菷菸菹菺菻菼菽菾菿",
      "蒀蒁蒂蒃蒄蒅蒆蒇蒈蒉蒊蒋蒌蒍蒎蒏蒐蒑蒒蒓蒔蒕蒖蒗蒘蒙蒚蒛蒜蒝蒞蒟蒠蒡蒢蒣蒤蒥蒦蒧蒨蒩蒪蒫蒬蒭蒮蒯蒰蒱蒲蒳蒴蒵蒶蒷蒸蒹蒺蒻蒼蒽蒾蒿蓀蓁蓂蓃蓄蓅蓆蓇蓈蓉蓊蓋蓌蓍蓎蓏蓐蓑蓒蓓蓔蓕蓖蓗蓘蓙蓚蓛蓜蓝蓞蓟蓠蓡蓢蓣蓤蓥蓦蓧蓨蓩蓪蓫蓬蓭蓮蓯蓰蓱蓲蓳蓴蓵蓶蓷蓸蓹蓺蓻蓼蓽蓾蓿",
      "薀薁薂薃薄薅薆薇薈薉薊薋薌薍薎薏薐薑薒薓薔薕薖薗薘薙薚薛薜薝薞薟薠薡薢薣薤薥薦薧薨薩薪薫薬薭薮薯薰薱薲薳薴薵薶薷薸薹薺薻薼薽薾薿藀藁藂藃藄藅藆藇藈藉藊藋藌藍藎藏藐藑藒藓藔藕藖藗藘藙藚藛藜藝藞藟藠藡藢藣藤藥藦藧藨藩藪藫藬藭藮藯藰藱藲藳藴藵藶藷藸藹藺藻藼藽藾藿",
      "蚀蚁蚂蚃蚄蚅蚆蚇蚈蚉蚊蚋蚌蚍蚎蚏蚐蚑蚒蚓蚔蚕蚖蚗蚘蚙蚚蚛蚜蚝蚞蚟蚠蚡蚢蚣蚤蚥蚦蚧蚨蚩蚪蚫蚬蚭蚮蚯蚰蚱蚲蚳蚴蚵蚶蚷蚸蚹蚺蚻蚼蚽蚾蚿蛀蛁蛂蛃蛄蛅蛆蛇蛈蛉蛊蛋蛌蛍蛎蛏蛐蛑蛒蛓蛔蛕蛖蛗蛘蛙蛚蛛蛜蛝蛞蛟蛠蛡蛢蛣蛤蛥蛦蛧蛨蛩蛪蛫蛬蛭蛮蛯蛰蛱蛲蛳蛴蛵蛶蛷蛸蛹蛺蛻蛼蛽蛾蛿",
      "螀螁螂螃螄螅螆螇螈螉螊螋螌融螎螏螐螑螒螓螔螕螖螗螘螙螚螛螜螝螞螟螠螡螢螣螤螥螦螧螨螩螪螫螬螭螮螯螰螱螲螳螴螵螶螷螸螹螺螻螼螽螾螿蟀蟁蟂蟃蟄蟅蟆蟇蟈蟉蟊蟋蟌蟍蟎蟏蟐蟑蟒蟓蟔蟕蟖蟗蟘蟙蟚蟛蟜蟝蟞蟟蟠蟡蟢蟣蟤蟥蟦蟧蟨蟩蟪蟫蟬蟭蟮蟯蟰蟱蟲蟳蟴蟵蟶蟷蟸蟹蟺蟻蟼蟽蟾蟿",
      "袀袁袂袃袄袅袆袇袈袉袊袋袌袍袎袏袐袑袒袓袔袕袖袗袘袙袚袛袜袝袞袟袠袡袢袣袤袥袦袧袨袩袪被袬袭袮袯袰袱袲袳袴袵袶袷袸袹袺袻袼袽袾袿裀裁裂裃裄装裆裇裈裉裊裋裌裍裎裏裐裑裒裓裔裕裖裗裘裙裚裛補裝裞裟裠裡裢裣裤裥裦裧裨裩裪裫裬裭裮裯裰裱裲裳裴裵裶裷裸裹裺裻裼製裾裿",
      "覀要覂覃覄覅覆覇覈覉覊見覌覍覎規覐覑覒覓覔覕視覗覘覙覚覛覜覝覞覟覠覡覢覣覤覥覦覧覨覩親覫覬覭覮覯覰覱覲観覴覵覶覷覸覹覺覻覼覽覾覿觀见观觃规觅视觇览觉觊觋觌觍觎觏觐觑角觓觔觕觖觗觘觙觚觛觜觝觞觟觠觡觢解觤觥触觧觨觩觪觫觬觭觮觯觰觱觲觳觴觵觶觷觸觹觺觻觼觽觾觿",
      "誀誁誂誃誄誅誆誇誈誉誊誋誌認誎誏誐誑誒誓誔誕誖誗誘誙誚誛誜誝語誟誠誡誢誣誤誥誦誧誨誩說誫説読誮誯誰誱課誳誴誵誶誷誸誹誺誻誼誽誾調諀諁諂諃諄諅諆談諈諉諊請諌諍諎諏諐諑諒諓諔諕論諗諘諙諚諛諜諝諞諟諠諡諢諣諤諥諦諧諨諩諪諫諬諭諮諯諰諱諲諳諴諵諶諷諸諹諺諻諼諽諾諿",
      "讀讁讂讃讄讅讆讇讈讉變讋讌讍讎讏讐讑讒讓讔讕讖讗讘讙讚讛讜讝讞讟讠计订讣认讥讦讧讨让讪讫讬训议讯记讱讲讳讴讵讶讷许讹论讻讼讽设访诀证诂诃评诅识诇诈诉诊诋诌词诎诏诐译诒诓诔试诖诗诘诙诚诛诜话诞诟诠诡询诣诤该详诧诨诩诪诫诬语诮误诰诱诲诳说诵诶请诸诹诺读诼诽课诿",
      "貀貁貂貃貄貅貆貇貈貉貊貋貌貍貎貏貐貑貒貓貔貕貖貗貘貙貚貛貜貝貞貟負財貢貣貤貥貦貧貨販貪貫責貭貮貯貰貱貲貳貴貵貶買貸貹貺費貼貽貾貿賀賁賂賃賄賅賆資賈賉賊賋賌賍賎賏賐賑賒賓賔賕賖賗賘賙賚賛賜賝賞賟賠賡賢賣賤賥賦賧賨賩質賫賬賭賮賯賰賱賲賳賴賵賶賷賸賹賺賻購賽賾賿",
      "趀趁趂趃趄超趆趇趈趉越趋趌趍趎趏趐趑趒趓趔趕趖趗趘趙趚趛趜趝趞趟趠趡趢趣趤趥趦趧趨趩趪趫趬趭趮趯趰趱趲足趴趵趶趷趸趹趺趻趼趽趾趿跀跁跂跃跄跅跆跇跈跉跊跋跌跍跎跏跐跑跒跓跔跕跖跗跘跙跚跛跜距跞跟跠跡跢跣跤跥跦跧跨跩跪跫跬跭跮路跰跱跲跳跴践跶跷跸跹跺跻跼跽跾跿",
      "躀躁躂躃躄躅躆躇躈躉躊躋躌躍躎躏躐躑躒躓躔躕躖躗躘躙躚躛躜躝躞躟躠躡躢躣躤躥躦躧躨躩躪身躬躭躮躯躰躱躲躳躴躵躶躷躸躹躺躻躼躽躾躿軀軁軂軃軄軅軆軇軈軉車軋軌軍軎軏軐軑軒軓軔軕軖軗軘軙軚軛軜軝軞軟軠軡転軣軤軥軦軧軨軩軪軫軬軭軮軯軰軱軲軳軴軵軶軷軸軹軺軻軼軽軾軿",
      "辀辁辂较辄辅辆辇辈辉辊辋辌辍辎辏辐辑辒输辔辕辖辗辘辙辚辛辜辝辞辟辠辡辢辣辤辥辦辧辨辩辪辫辬辭辮辯辰辱農辳辴辵辶辷辸边辺辻込辽达辿迀迁迂迃迄迅迆过迈迉迊迋迌迍迎迏运近迒迓返迕迖迗还这迚进远违连迟迠迡迢迣迤迥迦迧迨迩迪迫迬迭迮迯述迱迲迳迴迵迶迷迸迹迺迻迼追迾迿",
      "邀邁邂邃還邅邆邇邈邉邊邋邌邍邎邏邐邑邒邓邔邕邖邗邘邙邚邛邜邝邞邟邠邡邢那邤邥邦邧邨邩邪邫邬邭邮邯邰邱邲邳邴邵邶邷邸邹邺邻邼邽邾邿郀郁郂郃郄郅郆郇郈郉郊郋郌郍郎郏郐郑郒郓郔郕郖郗郘郙郚郛郜郝郞郟郠郡郢郣郤郥郦郧部郩郪郫郬郭郮郯郰郱郲郳郴郵郶郷郸郹郺郻郼都郾郿",
      "醀醁醂醃醄醅醆醇醈醉醊醋醌醍醎醏醐醑醒醓醔醕醖醗醘醙醚醛醜醝醞醟醠醡醢醣醤醥醦醧醨醩醪醫醬醭醮醯醰醱醲醳醴醵醶醷醸醹醺醻醼醽醾醿釀釁釂釃釄釅釆采釈釉释釋里重野量釐金釒釓釔釕釖釗釘釙釚釛釜針釞釟釠釡釢釣釤釥釦釧釨釩釪釫釬釭釮釯釰釱釲釳釴釵釶釷釸釹釺釻釼釽釾釿",
      "銀銁銂銃銄銅銆銇銈銉銊銋銌銍銎銏銐銑銒銓銔銕銖銗銘銙銚銛銜銝銞銟銠銡銢銣銤銥銦銧銨銩銪銫銬銭銮銯銰銱銲銳銴銵銶銷銸銹銺銻銼銽銾銿鋀鋁鋂鋃鋄鋅鋆鋇鋈鋉鋊鋋鋌鋍鋎鋏鋐鋑鋒鋓鋔鋕鋖鋗鋘鋙鋚鋛鋜鋝鋞鋟鋠鋡鋢鋣鋤鋥鋦鋧鋨鋩鋪鋫鋬鋭鋮鋯鋰鋱鋲鋳鋴鋵鋶鋷鋸鋹鋺鋻鋼鋽鋾鋿",
      "鎀鎁鎂鎃鎄鎅鎆鎇鎈鎉鎊鎋鎌鎍鎎鎏鎐鎑鎒鎓鎔鎕鎖鎗鎘鎙鎚鎛鎜鎝鎞鎟鎠鎡鎢鎣鎤鎥鎦鎧鎨鎩鎪鎫鎬鎭鎮鎯鎰鎱鎲鎳鎴鎵鎶鎷鎸鎹鎺鎻鎼鎽鎾鎿鏀鏁鏂鏃鏄鏅鏆鏇鏈鏉鏊鏋鏌鏍鏎鏏鏐鏑鏒鏓鏔鏕鏖鏗鏘鏙鏚鏛鏜鏝鏞鏟鏠鏡鏢鏣鏤鏥鏦鏧鏨鏩鏪鏫鏬鏭鏮鏯鏰鏱鏲鏳鏴鏵鏶鏷鏸鏹鏺鏻鏼鏽鏾鏿",
      "钀钁钂钃钄钅钆钇针钉钊钋钌钍钎钏钐钑钒钓钔钕钖钗钘钙钚钛钜钝钞钟钠钡钢钣钤钥钦钧钨钩钪钫钬钭钮钯钰钱钲钳钴钵钶钷钸钹钺钻钼钽钾钿铀铁铂铃铄铅铆铇铈铉铊铋铌铍铎铏铐铑铒铓铔铕铖铗铘铙铚铛铜铝铞铟铠铡铢铣铤铥铦铧铨铩铪铫铬铭铮铯铰铱铲铳铴铵银铷铸铹铺铻铼铽链铿",
      "門閁閂閃閄閅閆閇閈閉閊開閌閍閎閏閐閑閒間閔閕閖閗閘閙閚閛閜閝閞閟閠閡関閣閤閥閦閧閨閩閪閫閬閭閮閯閰閱閲閳閴閵閶閷閸閹閺閻閼閽閾閿闀闁闂闃闄闅闆闇闈闉闊闋闌闍闎闏闐闑闒闓闔闕闖闗闘闙闚闛關闝闞闟闠闡闢闣闤闥闦闧门闩闪闫闬闭问闯闰闱闲闳间闵闶闷闸闹闺闻闼闽闾闿",
      "隀隁隂隃隄隅隆隇隈隉隊隋隌隍階随隐隑隒隓隔隕隖隗隘隙隚際障隝隞隟隠隡隢隣隤隥隦隧隨隩險隫隬隭隮隯隰隱隲隳隴隵隶隷隸隹隺隻隼隽难隿雀雁雂雃雄雅集雇雈雉雊雋雌雍雎雏雐雑雒雓雔雕雖雗雘雙雚雛雜雝雞雟雠雡離難雤雥雦雧雨雩雪雫雬雭雮雯雰雱雲雳雴雵零雷雸雹雺電雼雽雾雿",
      "鞀鞁鞂鞃鞄鞅鞆鞇鞈鞉鞊鞋鞌鞍鞎鞏鞐鞑鞒鞓鞔鞕鞖鞗鞘鞙鞚鞛鞜鞝鞞鞟鞠鞡鞢鞣鞤鞥鞦鞧鞨鞩鞪鞫鞬鞭鞮鞯鞰鞱鞲鞳鞴鞵鞶鞷鞸鞹鞺鞻鞼鞽鞾鞿韀韁韂韃韄韅韆韇韈韉韊韋韌韍韎韏韐韑韒韓韔韕韖韗韘韙韚韛韜韝韞韟韠韡韢韣韤韥韦韧韨韩韪韫韬韭韮韯韰韱韲音韴韵韶韷韸韹韺韻韼韽韾響",
      "颀颁颂颃预颅领颇颈颉颊颋颌颍颎颏颐频颒颓颔颕颖颗题颙颚颛颜额颞颟颠颡颢颣颤颥颦颧風颩颪颫颬颭颮颯颰颱颲颳颴颵颶颷颸颹颺颻颼颽颾颿飀飁飂飃飄飅飆飇飈飉飊飋飌飍风飏飐飑飒飓飔飕飖飗飘飙飚飛飜飝飞食飠飡飢飣飤飥飦飧飨飩飪飫飬飭飮飯飰飱飲飳飴飵飶飷飸飹飺飻飼飽飾飿",
      "馀馁馂馃馄馅馆馇馈馉馊馋馌馍馎馏馐馑馒馓馔馕首馗馘香馚馛馜馝馞馟馠馡馢馣馤馥馦馧馨馩馪馫馬馭馮馯馰馱馲馳馴馵馶馷馸馹馺馻馼馽馾馿駀駁駂駃駄駅駆駇駈駉駊駋駌駍駎駏駐駑駒駓駔駕駖駗駘駙駚駛駜駝駞駟駠駡駢駣駤駥駦駧駨駩駪駫駬駭駮駯駰駱駲駳駴駵駶駷駸駹駺駻駼駽駾駿",
      "骀骁骂骃骄骅骆骇骈骉骊骋验骍骎骏骐骑骒骓骔骕骖骗骘骙骚骛骜骝骞骟骠骡骢骣骤骥骦骧骨骩骪骫骬骭骮骯骰骱骲骳骴骵骶骷骸骹骺骻骼骽骾骿髀髁髂髃髄髅髆髇髈髉髊髋髌髍髎髏髐髑髒髓體髕髖髗高髙髚髛髜髝髞髟髠髡髢髣髤髥髦髧髨髩髪髫髬髭髮髯髰髱髲髳髴髵髶髷髸髹髺髻髼髽髾髿",
      "鮀鮁鮂鮃鮄鮅鮆鮇鮈鮉鮊鮋鮌鮍鮎鮏鮐鮑鮒鮓鮔鮕鮖鮗鮘鮙鮚鮛鮜鮝鮞鮟鮠鮡鮢鮣鮤鮥鮦鮧鮨鮩鮪鮫鮬鮭鮮鮯鮰鮱鮲鮳鮴鮵鮶鮷鮸鮹鮺鮻鮼鮽鮾鮿鯀鯁鯂鯃鯄鯅鯆鯇鯈鯉鯊鯋鯌鯍鯎鯏鯐鯑鯒鯓鯔鯕鯖鯗鯘鯙鯚鯛鯜鯝鯞鯟鯠鯡鯢鯣鯤鯥鯦鯧鯨鯩鯪鯫鯬鯭鯮鯯鯰鯱鯲鯳鯴鯵鯶鯷鯸鯹鯺鯻鯼鯽鯾鯿",
      "鲀鲁鲂鲃鲄鲅鲆鲇鲈鲉鲊鲋鲌鲍鲎鲏鲐鲑鲒鲓鲔鲕鲖鲗鲘鲙鲚鲛鲜鲝鲞鲟鲠鲡鲢鲣鲤鲥鲦鲧鲨鲩鲪鲫鲬鲭鲮鲯鲰鲱鲲鲳鲴鲵鲶鲷鲸鲹鲺鲻鲼鲽鲾鲿鳀鳁鳂鳃鳄鳅鳆鳇鳈鳉鳊鳋鳌鳍鳎鳏鳐鳑鳒鳓鳔鳕鳖鳗鳘鳙鳚鳛鳜鳝鳞鳟鳠鳡鳢鳣鳤鳥鳦鳧鳨鳩鳪鳫鳬鳭鳮鳯鳰鳱鳲鳳鳴鳵鳶鳷鳸鳹鳺鳻鳼鳽鳾鳿",
      "鶀鶁鶂鶃鶄鶅鶆鶇鶈鶉鶊鶋鶌鶍鶎鶏鶐鶑鶒鶓鶔鶕鶖鶗鶘鶙鶚鶛鶜鶝鶞鶟鶠鶡鶢鶣鶤鶥鶦鶧鶨鶩鶪鶫鶬鶭鶮鶯鶰鶱鶲鶳鶴鶵鶶鶷鶸鶹鶺鶻鶼鶽鶾鶿鷀鷁鷂鷃鷄鷅鷆鷇鷈鷉鷊鷋鷌鷍鷎鷏鷐鷑鷒鷓鷔鷕鷖鷗鷘鷙鷚鷛鷜鷝鷞鷟鷠鷡鷢鷣鷤鷥鷦鷧鷨鷩鷪鷫鷬鷭鷮鷯鷰鷱鷲鷳鷴鷵鷶鷷鷸鷹鷺鷻鷼鷽鷾鷿",
      "麀麁麂麃麄麅麆麇麈麉麊麋麌麍麎麏麐麑麒麓麔麕麖麗麘麙麚麛麜麝麞麟麠麡麢麣麤麥麦麧麨麩麪麫麬麭麮麯麰麱麲麳麴麵麶麷麸麹麺麻麼麽麾麿黀黁黂黃黄黅黆黇黈黉黊黋黌黍黎黏黐黑黒黓黔黕黖黗默黙黚黛黜黝點黟黠黡黢黣黤黥黦黧黨黩黪黫黬黭黮黯黰黱黲黳黴黵黶黷黸黹黺黻黼黽黾黿",
      "龀龁龂龃龄龅龆龇龈龉龊龋龌龍龎龏龐龑龒龓龔龕龖龗龘龙龚龛龜龝龞龟龠龡龢龣龤龥龦龧龨龩龪龫龬龭龮龯龰龱龲龳龴龵龶龷龸龹龺龻龼龽龾龿鿀鿁鿂鿃鿄鿅鿆鿇鿈鿉鿊鿋鿌鿍鿎鿏鿐鿑鿒鿓鿔鿕鿖鿗鿘鿙鿚鿛鿜鿝鿞鿟鿠鿡鿢鿣鿤鿥鿦鿧鿨鿩鿪鿫鿬鿭鿮鿯鿰鿱鿲鿳鿴鿵鿶鿷鿸鿹鿺鿻鿼鿽鿾鿿",
      "ꂀꂁꂂꂃꂄꂅꂆꂇꂈꂉꂊꂋꂌꂍꂎꂏꂐꂑꂒꂓꂔꂕꂖꂗꂘꂙꂚꂛꂜꂝꂞꂟꂠꂡꂢꂣꂤꂥꂦꂧꂨꂩꂪꂫꂬꂭꂮꂯꂰꂱꂲꂳꂴꂵꂶꂷꂸꂹꂺꂻꂼꂽꂾꂿꃀꃁꃂꃃꃄꃅꃆꃇꃈꃉꃊꃋꃌꃍꃎꃏꃐꃑꃒꃓꃔꃕꃖꃗꃘꃙꃚꃛꃜꃝꃞꃟꃠꃡꃢꃣꃤꃥꃦꃧꃨꃩꃪꃫꃬꃭꃮꃯꃰꃱꃲꃳꃴꃵꃶꃷꃸꃹꃺꃻꃼꃽꃾꃿ",
      "ꆀꆁꆂꆃꆄꆅꆆꆇꆈꆉꆊꆋꆌꆍꆎꆏꆐꆑꆒꆓꆔꆕꆖꆗꆘꆙꆚꆛꆜꆝꆞꆟꆠꆡꆢꆣꆤꆥꆦꆧꆨꆩꆪꆫꆬꆭꆮꆯꆰꆱꆲꆳꆴꆵꆶꆷꆸꆹꆺꆻꆼꆽꆾꆿꇀꇁꇂꇃꇄꇅꇆꇇꇈꇉꇊꇋꇌꇍꇎꇏꇐꇑꇒꇓꇔꇕꇖꇗꇘꇙꇚꇛꇜꇝꇞꇟꇠꇡꇢꇣꇤꇥꇦꇧꇨꇩꇪꇫꇬꇭꇮꇯꇰꇱꇲꇳꇴꇵꇶꇷꇸꇹꇺꇻꇼꇽꇾꇿ",
      "ꊀꊁꊂꊃꊄꊅꊆꊇꊈꊉꊊꊋꊌꊍꊎꊏꊐꊑꊒꊓꊔꊕꊖꊗꊘꊙꊚꊛꊜꊝꊞꊟꊠꊡꊢꊣꊤꊥꊦꊧꊨꊩꊪꊫꊬꊭꊮꊯꊰꊱꊲꊳꊴꊵꊶꊷꊸꊹꊺꊻꊼꊽꊾꊿꋀꋁꋂꋃꋄꋅꋆꋇꋈꋉꋊꋋꋌꋍꋎꋏꋐꋑꋒꋓꋔꋕꋖꋗꋘꋙꋚꋛꋜꋝꋞꋟꋠꋡꋢꋣꋤꋥꋦꋧꋨꋩꋪꋫꋬꋭꋮꋯꋰꋱꋲꋳꋴꋵꋶꋷꋸꋹꋺꋻꋼꋽꋾꋿ",
      "ꎀꎁꎂꎃꎄꎅꎆꎇꎈꎉꎊꎋꎌꎍꎎꎏꎐꎑꎒꎓꎔꎕꎖꎗꎘꎙꎚꎛꎜꎝꎞꎟꎠꎡꎢꎣꎤꎥꎦꎧꎨꎩꎪꎫꎬꎭꎮꎯꎰꎱꎲꎳꎴꎵꎶꎷꎸꎹꎺꎻꎼꎽꎾꎿꏀꏁꏂꏃꏄꏅꏆꏇꏈꏉꏊꏋꏌꏍꏎꏏꏐꏑꏒꏓꏔꏕꏖꏗꏘꏙꏚꏛꏜꏝꏞꏟꏠꏡꏢꏣꏤꏥꏦꏧꏨꏩꏪꏫꏬꏭꏮꏯꏰꏱꏲꏳꏴꏵꏶꏷꏸꏹꏺꏻꏼꏽꏾꏿ",
      "ꒀꒁꒂꒃꒄꒅꒆꒇꒈꒉꒊꒋꒌ꒍꒎꒏꒐꒑꒒꒓꒔꒕꒖꒗꒘꒙꒚꒛꒜꒝꒞꒟꒠꒡꒢꒣꒤꒥꒦꒧꒨꒩꒪꒫꒬꒭꒮꒯꒰꒱꒲꒳꒴꒵꒶꒷꒸꒹꒺꒻꒼꒽꒾꒿꓀꓁꓂꓃꓄꓅꓆꓇꓈꓉꓊꓋꓌꓍꓎꓏ꓐꓑꓒꓓꓔꓕꓖꓗꓘꓙꓚꓛꓜꓝꓞꓟꓠꓡꓢꓣꓤꓥꓦꓧꓨꓩꓪꓫꓬꓭꓮꓯꓰꓱꓲꓳꓴꓵꓶꓷꓸꓹꓺꓻꓼꓽ꓾꓿",
      "ꖀꖁꖂꖃꖄꖅꖆꖇꖈꖉꖊꖋꖌꖍꖎꖏꖐꖑꖒꖓꖔꖕꖖꖗꖘꖙꖚꖛꖜꖝꖞꖟꖠꖡꖢꖣꖤꖥꖦꖧꖨꖩꖪꖫꖬꖭꖮꖯꖰꖱꖲꖳꖴꖵꖶꖷꖸꖹꖺꖻꖼꖽꖾꖿꗀꗁꗂꗃꗄꗅꗆꗇꗈꗉꗊꗋꗌꗍꗎꗏꗐꗑꗒꗓꗔꗕꗖꗗꗘꗙꗚꗛꗜꗝꗞꗟꗠꗡꗢꗣꗤꗥꗦꗧꗨꗩꗪꗫꗬꗭꗮꗯꗰꗱꗲꗳꗴꗵꗶꗷꗸꗹꗺꗻꗼꗽꗾꗿ",
      "ꚀꚁꚂꚃꚄꚅꚆꚇꚈꚉꚊꚋꚌꚍꚎꚏꚐꚑꚒꚓꚔꚕꚖꚗꚘꚙꚚꚛꚜꚝꚞꚟꚠꚡꚢꚣꚤꚥꚦꚧꚨꚩꚪꚫꚬꚭꚮꚯꚰꚱꚲꚳꚴꚵꚶꚷꚸꚹꚺꚻꚼꚽꚾꚿꛀꛁꛂꛃꛄꛅꛆꛇꛈꛉꛊꛋꛌꛍꛎꛏꛐꛑꛒꛓꛔꛕꛖꛗꛘꛙꛚꛛꛜꛝꛞꛟꛠꛡꛢꛣꛤꛥꛦꛧꛨꛩꛪꛫꛬꛭꛮꛯ꛰꛱꛲꛳꛴꛵꛶꛷꛸꛹꛺꛻꛼꛽꛾꛿",
      "ꞀꞁꞂꞃꞄꞅꞆꞇꞈ꞉꞊ꞋꞌꞍꞎꞏꞐꞑꞒꞓꞔꞕꞖꞗꞘꞙꞚꞛꞜꞝꞞꞟꞠꞡꞢꞣꞤꞥꞦꞧꞨꞩꞪꞫꞬꞭꞮꞯꞰꞱꞲꞳꞴꞵꞶꞷꞸꞹꞺꞻꞼꞽꞾꞿꟀꟁꟂꟃꟄꟅꟆꟇꟈꟉꟊꟋꟌꟍ꟎꟏Ꟑꟑ꟒ꟓ꟔ꟕꟖꟗꟘꟙꟚꟛꟜ꟝꟞꟟꟠꟡꟢꟣꟤꟥꟦꟧꟨꟩꟪꟫꟬꟭꟮꟯꟰꟱ꟲꟳꟴꟵꟶꟷꟸꟹꟺꟻꟼꟽꟾꟿ",
      "ꢀꢁꢂꢃꢄꢅꢆꢇꢈꢉꢊꢋꢌꢍꢎꢏꢐꢑꢒꢓꢔꢕꢖꢗꢘꢙꢚꢛꢜꢝꢞꢟꢠꢡꢢꢣꢤꢥꢦꢧꢨꢩꢪꢫꢬꢭꢮꢯꢰꢱꢲꢳꢴꢵꢶꢷꢸꢹꢺꢻꢼꢽꢾꢿꣀꣁꣂꣃ꣄ꣅ꣆꣇꣈꣉꣊꣋꣌꣍꣎꣏꣐꣑꣒꣓꣔꣕꣖꣗꣘꣙꣚꣛꣜꣝꣞꣟꣠꣡꣢꣣꣤꣥꣦꣧꣨꣩꣪꣫꣬꣭꣮꣯꣰꣱ꣲꣳꣴꣵꣶꣷ꣸꣹꣺ꣻ꣼ꣽꣾꣿ",
      "ꦀꦁꦂꦃꦄꦅꦆꦇꦈꦉꦊꦋꦌꦍꦎꦏꦐꦑꦒꦓꦔꦕꦖꦗꦘꦙꦚꦛꦜꦝꦞꦟꦠꦡꦢꦣꦤꦥꦦꦧꦨꦩꦪꦫꦬꦭꦮꦯꦰꦱꦲ꦳ꦴꦵꦶꦷꦸꦹꦺꦻꦼꦽꦾꦿ꧀꧁꧂꧃꧄꧅꧆꧇꧈꧉꧊꧋꧌꧍꧎ꧏ꧐꧑꧒꧓꧔꧕꧖꧗꧘꧙꧚꧛꧜꧝꧞꧟ꧠꧡꧢꧣꧤꧥꧦꧧꧨꧩꧪꧫꧬꧭꧮꧯ꧰꧱꧲꧳꧴꧵꧶꧷꧸꧹ꧺꧻꧼꧽꧾ꧿",
      "ꪀꪁꪂꪃꪄꪅꪆꪇꪈꪉꪊꪋꪌꪍꪎꪏꪐꪑꪒꪓꪔꪕꪖꪗꪘꪙꪚꪛꪜꪝꪞꪟꪠꪡꪢꪣꪤꪥꪦꪧꪨꪩꪪꪫꪬꪭꪮꪯꪰꪱꪴꪲꪳꪵꪶꪷꪸꪹꪺꪻꪼꪽꪾ꪿ꫀ꫁ꫂ꫃꫄꫅꫆꫇꫈꫉꫊꫋꫌꫍꫎꫏꫐꫑꫒꫓꫔꫕꫖꫗꫘꫙꫚ꫛꫜꫝ꫞꫟ꫠꫡꫢꫣꫤꫥꫦꫧꫨꫩꫪꫫꫬꫭꫮꫯ꫰꫱ꫲꫳꫴꫵ꫶꫷꫸꫹꫺꫻꫼꫽꫾꫿",
      "ꮀꮁꮂꮃꮄꮅꮆꮇꮈꮉꮊꮋꮌꮍꮎꮏꮐꮑꮒꮓꮔꮕꮖꮗꮘꮙꮚꮛꮜꮝꮞꮟꮠꮡꮢꮣꮤꮥꮦꮧꮨꮩꮪꮫꮬꮭꮮꮯꮰꮱꮲꮳꮴꮵꮶꮷꮸꮹꮺꮻꮼꮽꮾꮿꯀꯁꯂꯃꯄꯅꯆꯇꯈꯉꯊꯋꯌꯍꯎꯏꯐꯑꯒꯓꯔꯕꯖꯗꯘꯙꯚꯛꯜꯝꯞꯟꯠꯡꯢꯣꯤꯥꯦꯧꯨꯩꯪ꯫꯬꯭꯮꯯꯰꯱꯲꯳꯴꯵꯶꯷꯸꯹꯺꯻꯼꯽꯾꯿",
      "검겁겂것겄겅겆겇겈겉겊겋게겍겎겏겐겑겒겓겔겕겖겗겘겙겚겛겜겝겞겟겠겡겢겣겤겥겦겧겨격겪겫견겭겮겯결겱겲겳겴겵겶겷겸겹겺겻겼경겾겿곀곁곂곃계곅곆곇곈곉곊곋곌곍곎곏곐곑곒곓곔곕곖곗곘곙곚곛곜곝곞곟고곡곢곣곤곥곦곧골곩곪곫곬곭곮곯곰곱곲곳곴공곶곷곸곹곺곻과곽곾곿",
      "궀궁궂궃궄궅궆궇궈궉궊궋권궍궎궏궐궑궒궓궔궕궖궗궘궙궚궛궜궝궞궟궠궡궢궣궤궥궦궧궨궩궪궫궬궭궮궯궰궱궲궳궴궵궶궷궸궹궺궻궼궽궾궿귀귁귂귃귄귅귆귇귈귉귊귋귌귍귎귏귐귑귒귓귔귕귖귗귘귙귚귛규귝귞귟균귡귢귣귤귥귦귧귨귩귪귫귬귭귮귯귰귱귲귳귴귵귶귷그극귺귻근귽귾귿",
      "꺀꺁꺂꺃꺄꺅꺆꺇꺈꺉꺊꺋꺌꺍꺎꺏꺐꺑꺒꺓꺔꺕꺖꺗꺘꺙꺚꺛꺜꺝꺞꺟꺠꺡꺢꺣꺤꺥꺦꺧꺨꺩꺪꺫꺬꺭꺮꺯꺰꺱꺲꺳꺴꺵꺶꺷꺸꺹꺺꺻꺼꺽꺾꺿껀껁껂껃껄껅껆껇껈껉껊껋껌껍껎껏껐껑껒껓껔껕껖껗께껙껚껛껜껝껞껟껠껡껢껣껤껥껦껧껨껩껪껫껬껭껮껯껰껱껲껳껴껵껶껷껸껹껺껻껼껽껾껿",
      "꾀꾁꾂꾃꾄꾅꾆꾇꾈꾉꾊꾋꾌꾍꾎꾏꾐꾑꾒꾓꾔꾕꾖꾗꾘꾙꾚꾛꾜꾝꾞꾟꾠꾡꾢꾣꾤꾥꾦꾧꾨꾩꾪꾫꾬꾭꾮꾯꾰꾱꾲꾳꾴꾵꾶꾷꾸꾹꾺꾻꾼꾽꾾꾿꿀꿁꿂꿃꿄꿅꿆꿇꿈꿉꿊꿋꿌꿍꿎꿏꿐꿑꿒꿓꿔꿕꿖꿗꿘꿙꿚꿛꿜꿝꿞꿟꿠꿡꿢꿣꿤꿥꿦꿧꿨꿩꿪꿫꿬꿭꿮꿯꿰꿱꿲꿳꿴꿵꿶꿷꿸꿹꿺꿻꿼꿽꿾꿿",
      "낀낁낂낃낄낅낆낇낈낉낊낋낌낍낎낏낐낑낒낓낔낕낖낗나낙낚낛난낝낞낟날낡낢낣낤낥낦낧남납낪낫났낭낮낯낰낱낲낳내낵낶낷낸낹낺낻낼낽낾낿냀냁냂냃냄냅냆냇냈냉냊냋냌냍냎냏냐냑냒냓냔냕냖냗냘냙냚냛냜냝냞냟냠냡냢냣냤냥냦냧냨냩냪냫냬냭냮냯냰냱냲냳냴냵냶냷냸냹냺냻냼냽냾냿",
      "놀놁놂놃놄놅놆놇놈놉놊놋놌농놎놏놐놑높놓놔놕놖놗놘놙놚놛놜놝놞놟놠놡놢놣놤놥놦놧놨놩놪놫놬놭놮놯놰놱놲놳놴놵놶놷놸놹놺놻놼놽놾놿뇀뇁뇂뇃뇄뇅뇆뇇뇈뇉뇊뇋뇌뇍뇎뇏뇐뇑뇒뇓뇔뇕뇖뇗뇘뇙뇚뇛뇜뇝뇞뇟뇠뇡뇢뇣뇤뇥뇦뇧뇨뇩뇪뇫뇬뇭뇮뇯뇰뇱뇲뇳뇴뇵뇶뇷뇸뇹뇺뇻뇼뇽뇾뇿",
      "늀늁늂늃늄늅늆늇늈늉늊늋늌늍늎늏느늑늒늓는늕늖늗늘늙늚늛늜늝늞늟늠늡늢늣늤능늦늧늨늩늪늫늬늭늮늯늰늱늲늳늴늵늶늷늸늹늺늻늼늽늾늿닀닁닂닃닄닅닆닇니닉닊닋닌닍닎닏닐닑닒닓닔닕닖닗님닙닚닛닜닝닞닟닠닡닢닣다닥닦닧단닩닪닫달닭닮닯닰닱닲닳담답닶닷닸당닺닻닼닽닾닿",
      "뎀뎁뎂뎃뎄뎅뎆뎇뎈뎉뎊뎋뎌뎍뎎뎏뎐뎑뎒뎓뎔뎕뎖뎗뎘뎙뎚뎛뎜뎝뎞뎟뎠뎡뎢뎣뎤뎥뎦뎧뎨뎩뎪뎫뎬뎭뎮뎯뎰뎱뎲뎳뎴뎵뎶뎷뎸뎹뎺뎻뎼뎽뎾뎿돀돁돂돃도독돆돇돈돉돊돋돌돍돎돏돐돑돒돓돔돕돖돗돘동돚돛돜돝돞돟돠돡돢돣돤돥돦돧돨돩돪돫돬돭돮돯돰돱돲돳돴돵돶돷돸돹돺돻돼돽돾돿",
      "뒀뒁뒂뒃뒄뒅뒆뒇뒈뒉뒊뒋뒌뒍뒎뒏뒐뒑뒒뒓뒔뒕뒖뒗뒘뒙뒚뒛뒜뒝뒞뒟뒠뒡뒢뒣뒤뒥뒦뒧뒨뒩뒪뒫뒬뒭뒮뒯뒰뒱뒲뒳뒴뒵뒶뒷뒸뒹뒺뒻뒼뒽뒾뒿듀듁듂듃듄듅듆듇듈듉듊듋듌듍듎듏듐듑듒듓듔듕듖듗듘듙듚듛드득듞듟든듡듢듣들듥듦듧듨듩듪듫듬듭듮듯듰등듲듳듴듵듶듷듸듹듺듻듼듽듾듿",
      "떀떁떂떃떄떅떆떇떈떉떊떋떌떍떎떏떐떑떒떓떔떕떖떗떘떙떚떛떜떝떞떟떠떡떢떣떤떥떦떧떨떩떪떫떬떭떮떯떰떱떲떳떴떵떶떷떸떹떺떻떼떽떾떿뗀뗁뗂뗃뗄뗅뗆뗇뗈뗉뗊뗋뗌뗍뗎뗏뗐뗑뗒뗓뗔뗕뗖뗗뗘뗙뗚뗛뗜뗝뗞뗟뗠뗡뗢뗣뗤뗥뗦뗧뗨뗩뗪뗫뗬뗭뗮뗯뗰뗱뗲뗳뗴뗵뗶뗷뗸뗹뗺뗻뗼뗽뗾뗿",
      "뚀뚁뚂뚃뚄뚅뚆뚇뚈뚉뚊뚋뚌뚍뚎뚏뚐뚑뚒뚓뚔뚕뚖뚗뚘뚙뚚뚛뚜뚝뚞뚟뚠뚡뚢뚣뚤뚥뚦뚧뚨뚩뚪뚫뚬뚭뚮뚯뚰뚱뚲뚳뚴뚵뚶뚷뚸뚹뚺뚻뚼뚽뚾뚿뛀뛁뛂뛃뛄뛅뛆뛇뛈뛉뛊뛋뛌뛍뛎뛏뛐뛑뛒뛓뛔뛕뛖뛗뛘뛙뛚뛛뛜뛝뛞뛟뛠뛡뛢뛣뛤뛥뛦뛧뛨뛩뛪뛫뛬뛭뛮뛯뛰뛱뛲뛳뛴뛵뛶뛷뛸뛹뛺뛻뛼뛽뛾뛿",
      "란랁랂랃랄랅랆랇랈랉랊랋람랍랎랏랐랑랒랓랔랕랖랗래랙랚랛랜랝랞랟랠랡랢랣랤랥랦랧램랩랪랫랬랭랮랯랰랱랲랳랴략랶랷랸랹랺랻랼랽랾랿럀럁럂럃럄럅럆럇럈량럊럋럌럍럎럏럐럑럒럓럔럕럖럗럘럙럚럛럜럝럞럟럠럡럢럣럤럥럦럧럨럩럪럫러럭럮럯런럱럲럳럴럵럶럷럸럹럺럻럼럽럾럿",
      "뢀뢁뢂뢃뢄뢅뢆뢇뢈뢉뢊뢋뢌뢍뢎뢏뢐뢑뢒뢓뢔뢕뢖뢗뢘뢙뢚뢛뢜뢝뢞뢟뢠뢡뢢뢣뢤뢥뢦뢧뢨뢩뢪뢫뢬뢭뢮뢯뢰뢱뢲뢳뢴뢵뢶뢷뢸뢹뢺뢻뢼뢽뢾뢿룀룁룂룃룄룅룆룇룈룉룊룋료룍룎룏룐룑룒룓룔룕룖룗룘룙룚룛룜룝룞룟룠룡룢룣룤룥룦룧루룩룪룫룬룭룮룯룰룱룲룳룴룵룶룷룸룹룺룻룼룽룾룿",
      "릀릁릂릃름릅릆릇릈릉릊릋릌릍릎릏릐릑릒릓릔릕릖릗릘릙릚릛릜릝릞릟릠릡릢릣릤릥릦릧릨릩릪릫리릭릮릯린릱릲릳릴릵릶릷릸릹릺릻림립릾릿맀링맂맃맄맅맆맇마막맊맋만맍많맏말맑맒맓맔맕맖맗맘맙맚맛맜망맞맟맠맡맢맣매맥맦맧맨맩맪맫맬맭맮맯맰맱맲맳맴맵맶맷맸맹맺맻맼맽맾맿",
      "몀몁몂몃몄명몆몇몈몉몊몋몌몍몎몏몐몑몒몓몔몕몖몗몘몙몚몛몜몝몞몟몠몡몢몣몤몥몦몧모목몪몫몬몭몮몯몰몱몲몳몴몵몶몷몸몹몺못몼몽몾몿뫀뫁뫂뫃뫄뫅뫆뫇뫈뫉뫊뫋뫌뫍뫎뫏뫐뫑뫒뫓뫔뫕뫖뫗뫘뫙뫚뫛뫜뫝뫞뫟뫠뫡뫢뫣뫤뫥뫦뫧뫨뫩뫪뫫뫬뫭뫮뫯뫰뫱뫲뫳뫴뫵뫶뫷뫸뫹뫺뫻뫼뫽뫾뫿",
      "뮀뮁뮂뮃뮄뮅뮆뮇뮈뮉뮊뮋뮌뮍뮎뮏뮐뮑뮒뮓뮔뮕뮖뮗뮘뮙뮚뮛뮜뮝뮞뮟뮠뮡뮢뮣뮤뮥뮦뮧뮨뮩뮪뮫뮬뮭뮮뮯뮰뮱뮲뮳뮴뮵뮶뮷뮸뮹뮺뮻뮼뮽뮾뮿므믁믂믃믄믅믆믇믈믉믊믋믌믍믎믏믐믑믒믓믔믕믖믗믘믙믚믛믜믝믞믟믠믡믢믣믤믥믦믧믨믩믪믫믬믭믮믯믰믱믲믳믴믵믶믷미믹믺믻민믽믾믿",
      "벀벁벂벃버벅벆벇번벉벊벋벌벍벎벏벐벑벒벓범법벖벗벘벙벚벛벜벝벞벟베벡벢벣벤벥벦벧벨벩벪벫벬벭벮벯벰벱벲벳벴벵벶벷벸벹벺벻벼벽벾벿변볁볂볃별볅볆볇볈볉볊볋볌볍볎볏볐병볒볓볔볕볖볗볘볙볚볛볜볝볞볟볠볡볢볣볤볥볦볧볨볩볪볫볬볭볮볯볰볱볲볳보복볶볷본볹볺볻볼볽볾볿",
      "부북붂붃분붅붆붇불붉붊붋붌붍붎붏붐붑붒붓붔붕붖붗붘붙붚붛붜붝붞붟붠붡붢붣붤붥붦붧붨붩붪붫붬붭붮붯붰붱붲붳붴붵붶붷붸붹붺붻붼붽붾붿뷀뷁뷂뷃뷄뷅뷆뷇뷈뷉뷊뷋뷌뷍뷎뷏뷐뷑뷒뷓뷔뷕뷖뷗뷘뷙뷚뷛뷜뷝뷞뷟뷠뷡뷢뷣뷤뷥뷦뷧뷨뷩뷪뷫뷬뷭뷮뷯뷰뷱뷲뷳뷴뷵뷶뷷뷸뷹뷺뷻뷼뷽뷾뷿",
      "뺀뺁뺂뺃뺄뺅뺆뺇뺈뺉뺊뺋뺌뺍뺎뺏뺐뺑뺒뺓뺔뺕뺖뺗뺘뺙뺚뺛뺜뺝뺞뺟뺠뺡뺢뺣뺤뺥뺦뺧뺨뺩뺪뺫뺬뺭뺮뺯뺰뺱뺲뺳뺴뺵뺶뺷뺸뺹뺺뺻뺼뺽뺾뺿뻀뻁뻂뻃뻄뻅뻆뻇뻈뻉뻊뻋뻌뻍뻎뻏뻐뻑뻒뻓뻔뻕뻖뻗뻘뻙뻚뻛뻜뻝뻞뻟뻠뻡뻢뻣뻤뻥뻦뻧뻨뻩뻪뻫뻬뻭뻮뻯뻰뻱뻲뻳뻴뻵뻶뻷뻸뻹뻺뻻뻼뻽뻾뻿",
      "뾀뾁뾂뾃뾄뾅뾆뾇뾈뾉뾊뾋뾌뾍뾎뾏뾐뾑뾒뾓뾔뾕뾖뾗뾘뾙뾚뾛뾜뾝뾞뾟뾠뾡뾢뾣뾤뾥뾦뾧뾨뾩뾪뾫뾬뾭뾮뾯뾰뾱뾲뾳뾴뾵뾶뾷뾸뾹뾺뾻뾼뾽뾾뾿뿀뿁뿂뿃뿄뿅뿆뿇뿈뿉뿊뿋뿌뿍뿎뿏뿐뿑뿒뿓뿔뿕뿖뿗뿘뿙뿚뿛뿜뿝뿞뿟뿠뿡뿢뿣뿤뿥뿦뿧뿨뿩뿪뿫뿬뿭뿮뿯뿰뿱뿲뿳뿴뿵뿶뿷뿸뿹뿺뿻뿼뿽뿾뿿",
      "삀삁삂삃삄삅삆삇삈삉삊삋삌삍삎삏삐삑삒삓삔삕삖삗삘삙삚삛삜삝삞삟삠삡삢삣삤삥삦삧삨삩삪삫사삭삮삯산삱삲삳살삵삶삷삸삹삺삻삼삽삾삿샀상샂샃샄샅샆샇새색샊샋샌샍샎샏샐샑샒샓샔샕샖샗샘샙샚샛샜생샞샟샠샡샢샣샤샥샦샧샨샩샪샫샬샭샮샯샰샱샲샳샴샵샶샷샸샹샺샻샼샽샾샿",
      "솀솁솂솃솄솅솆솇솈솉솊솋소속솎솏손솑솒솓솔솕솖솗솘솙솚솛솜솝솞솟솠송솢솣솤솥솦솧솨솩솪솫솬솭솮솯솰솱솲솳솴솵솶솷솸솹솺솻솼솽솾솿쇀쇁쇂쇃쇄쇅쇆쇇쇈쇉쇊쇋쇌쇍쇎쇏쇐쇑쇒쇓쇔쇕쇖쇗쇘쇙쇚쇛쇜쇝쇞쇟쇠쇡쇢쇣쇤쇥쇦쇧쇨쇩쇪쇫쇬쇭쇮쇯쇰쇱쇲쇳쇴쇵쇶쇷쇸쇹쇺쇻쇼쇽쇾쇿",
      "슀슁슂슃슄슅슆슇슈슉슊슋슌슍슎슏슐슑슒슓슔슕슖슗슘슙슚슛슜슝슞슟슠슡슢슣스슥슦슧슨슩슪슫슬슭슮슯슰슱슲슳슴습슶슷슸승슺슻슼슽슾슿싀싁싂싃싄싅싆싇싈싉싊싋싌싍싎싏싐싑싒싓싔싕싖싗싘싙싚싛시식싞싟신싡싢싣실싥싦싧싨싩싪싫심십싮싯싰싱싲싳싴싵싶싷싸싹싺싻싼싽싾싿",
      "쎀쎁쎂쎃쎄쎅쎆쎇쎈쎉쎊쎋쎌쎍쎎쎏쎐쎑쎒쎓쎔쎕쎖쎗쎘쎙쎚쎛쎜쎝쎞쎟쎠쎡쎢쎣쎤쎥쎦쎧쎨쎩쎪쎫쎬쎭쎮쎯쎰쎱쎲쎳쎴쎵쎶쎷쎸쎹쎺쎻쎼쎽쎾쎿쏀쏁쏂쏃쏄쏅쏆쏇쏈쏉쏊쏋쏌쏍쏎쏏쏐쏑쏒쏓쏔쏕쏖쏗쏘쏙쏚쏛쏜쏝쏞쏟쏠쏡쏢쏣쏤쏥쏦쏧쏨쏩쏪쏫쏬쏭쏮쏯쏰쏱쏲쏳쏴쏵쏶쏷쏸쏹쏺쏻쏼쏽쏾쏿",
      "쒀쒁쒂쒃쒄쒅쒆쒇쒈쒉쒊쒋쒌쒍쒎쒏쒐쒑쒒쒓쒔쒕쒖쒗쒘쒙쒚쒛쒜쒝쒞쒟쒠쒡쒢쒣쒤쒥쒦쒧쒨쒩쒪쒫쒬쒭쒮쒯쒰쒱쒲쒳쒴쒵쒶쒷쒸쒹쒺쒻쒼쒽쒾쒿쓀쓁쓂쓃쓄쓅쓆쓇쓈쓉쓊쓋쓌쓍쓎쓏쓐쓑쓒쓓쓔쓕쓖쓗쓘쓙쓚쓛쓜쓝쓞쓟쓠쓡쓢쓣쓤쓥쓦쓧쓨쓩쓪쓫쓬쓭쓮쓯쓰쓱쓲쓳쓴쓵쓶쓷쓸쓹쓺쓻쓼쓽쓾쓿",
      "얀얁얂얃얄얅얆얇얈얉얊얋얌얍얎얏얐양얒얓얔얕얖얗얘얙얚얛얜얝얞얟얠얡얢얣얤얥얦얧얨얩얪얫얬얭얮얯얰얱얲얳어억얶얷언얹얺얻얼얽얾얿엀엁엂엃엄업없엇었엉엊엋엌엍엎엏에엑엒엓엔엕엖엗엘엙엚엛엜엝엞엟엠엡엢엣엤엥엦엧엨엩엪엫여역엮엯연엱엲엳열엵엶엷엸엹엺엻염엽엾엿",
      "욀욁욂욃욄욅욆욇욈욉욊욋욌욍욎욏욐욑욒욓요욕욖욗욘욙욚욛욜욝욞욟욠욡욢욣욤욥욦욧욨용욪욫욬욭욮욯우욱욲욳운욵욶욷울욹욺욻욼욽욾욿움웁웂웃웄웅웆웇웈웉웊웋워웍웎웏원웑웒웓월웕웖웗웘웙웚웛웜웝웞웟웠웡웢웣웤웥웦웧웨웩웪웫웬웭웮웯웰웱웲웳웴웵웶웷웸웹웺웻웼웽웾웿",
      "잀잁잂잃임입잆잇있잉잊잋잌잍잎잏자작잒잓잔잕잖잗잘잙잚잛잜잝잞잟잠잡잢잣잤장잦잧잨잩잪잫재잭잮잯잰잱잲잳잴잵잶잷잸잹잺잻잼잽잾잿쟀쟁쟂쟃쟄쟅쟆쟇쟈쟉쟊쟋쟌쟍쟎쟏쟐쟑쟒쟓쟔쟕쟖쟗쟘쟙쟚쟛쟜쟝쟞쟟쟠쟡쟢쟣쟤쟥쟦쟧쟨쟩쟪쟫쟬쟭쟮쟯쟰쟱쟲쟳쟴쟵쟶쟷쟸쟹쟺쟻쟼쟽쟾쟿",
      "좀좁좂좃좄종좆좇좈좉좊좋좌좍좎좏좐좑좒좓좔좕좖좗좘좙좚좛좜좝좞좟좠좡좢좣좤좥좦좧좨좩좪좫좬좭좮좯좰좱좲좳좴좵좶좷좸좹좺좻좼좽좾좿죀죁죂죃죄죅죆죇죈죉죊죋죌죍죎죏죐죑죒죓죔죕죖죗죘죙죚죛죜죝죞죟죠죡죢죣죤죥죦죧죨죩죪죫죬죭죮죯죰죱죲죳죴죵죶죷죸죹죺죻주죽죾죿",
      "즀즁즂즃즄즅즆즇즈즉즊즋즌즍즎즏즐즑즒즓즔즕즖즗즘즙즚즛즜증즞즟즠즡즢즣즤즥즦즧즨즩즪즫즬즭즮즯즰즱즲즳즴즵즶즷즸즹즺즻즼즽즾즿지직짂짃진짅짆짇질짉짊짋짌짍짎짏짐집짒짓짔징짖짗짘짙짚짛짜짝짞짟짠짡짢짣짤짥짦짧짨짩짪짫짬짭짮짯짰짱짲짳짴짵짶짷째짹짺짻짼짽짾짿",
      "쪀쪁쪂쪃쪄쪅쪆쪇쪈쪉쪊쪋쪌쪍쪎쪏쪐쪑쪒쪓쪔쪕쪖쪗쪘쪙쪚쪛쪜쪝쪞쪟쪠쪡쪢쪣쪤쪥쪦쪧쪨쪩쪪쪫쪬쪭쪮쪯쪰쪱쪲쪳쪴쪵쪶쪷쪸쪹쪺쪻쪼쪽쪾쪿쫀쫁쫂쫃쫄쫅쫆쫇쫈쫉쫊쫋쫌쫍쫎쫏쫐쫑쫒쫓쫔쫕쫖쫗쫘쫙쫚쫛쫜쫝쫞쫟쫠쫡쫢쫣쫤쫥쫦쫧쫨쫩쫪쫫쫬쫭쫮쫯쫰쫱쫲쫳쫴쫵쫶쫷쫸쫹쫺쫻쫼쫽쫾쫿",
      "쮀쮁쮂쮃쮄쮅쮆쮇쮈쮉쮊쮋쮌쮍쮎쮏쮐쮑쮒쮓쮔쮕쮖쮗쮘쮙쮚쮛쮜쮝쮞쮟쮠쮡쮢쮣쮤쮥쮦쮧쮨쮩쮪쮫쮬쮭쮮쮯쮰쮱쮲쮳쮴쮵쮶쮷쮸쮹쮺쮻쮼쮽쮾쮿쯀쯁쯂쯃쯄쯅쯆쯇쯈쯉쯊쯋쯌쯍쯎쯏쯐쯑쯒쯓쯔쯕쯖쯗쯘쯙쯚쯛쯜쯝쯞쯟쯠쯡쯢쯣쯤쯥쯦쯧쯨쯩쯪쯫쯬쯭쯮쯯쯰쯱쯲쯳쯴쯵쯶쯷쯸쯹쯺쯻쯼쯽쯾쯿",
      "첀첁첂첃첄첅첆첇첈첉첊첋첌첍첎첏첐첑첒첓첔첕첖첗처척첚첛천첝첞첟철첡첢첣첤첥첦첧첨첩첪첫첬청첮첯첰첱첲첳체첵첶첷첸첹첺첻첼첽첾첿쳀쳁쳂쳃쳄쳅쳆쳇쳈쳉쳊쳋쳌쳍쳎쳏쳐쳑쳒쳓쳔쳕쳖쳗쳘쳙쳚쳛쳜쳝쳞쳟쳠쳡쳢쳣쳤쳥쳦쳧쳨쳩쳪쳫쳬쳭쳮쳯쳰쳱쳲쳳쳴쳵쳶쳷쳸쳹쳺쳻쳼쳽쳾쳿",
      "춀춁춂춃춄춅춆춇춈춉춊춋춌춍춎춏춐춑춒춓추축춖춗춘춙춚춛출춝춞춟춠춡춢춣춤춥춦춧춨충춪춫춬춭춮춯춰춱춲춳춴춵춶춷춸춹춺춻춼춽춾춿췀췁췂췃췄췅췆췇췈췉췊췋췌췍췎췏췐췑췒췓췔췕췖췗췘췙췚췛췜췝췞췟췠췡췢췣췤췥췦췧취췩췪췫췬췭췮췯췰췱췲췳췴췵췶췷췸췹췺췻췼췽췾췿",
      "캀캁캂캃캄캅캆캇캈캉캊캋캌캍캎캏캐캑캒캓캔캕캖캗캘캙캚캛캜캝캞캟캠캡캢캣캤캥캦캧캨캩캪캫캬캭캮캯캰캱캲캳캴캵캶캷캸캹캺캻캼캽캾캿컀컁컂컃컄컅컆컇컈컉컊컋컌컍컎컏컐컑컒컓컔컕컖컗컘컙컚컛컜컝컞컟컠컡컢컣커컥컦컧컨컩컪컫컬컭컮컯컰컱컲컳컴컵컶컷컸컹컺컻컼컽컾컿",
      "쾀쾁쾂쾃쾄쾅쾆쾇쾈쾉쾊쾋쾌쾍쾎쾏쾐쾑쾒쾓쾔쾕쾖쾗쾘쾙쾚쾛쾜쾝쾞쾟쾠쾡쾢쾣쾤쾥쾦쾧쾨쾩쾪쾫쾬쾭쾮쾯쾰쾱쾲쾳쾴쾵쾶쾷쾸쾹쾺쾻쾼쾽쾾쾿쿀쿁쿂쿃쿄쿅쿆쿇쿈쿉쿊쿋쿌쿍쿎쿏쿐쿑쿒쿓쿔쿕쿖쿗쿘쿙쿚쿛쿜쿝쿞쿟쿠쿡쿢쿣쿤쿥쿦쿧쿨쿩쿪쿫쿬쿭쿮쿯쿰쿱쿲쿳쿴쿵쿶쿷쿸쿹쿺쿻쿼쿽쿾쿿",
      "킀킁킂킃킄킅킆킇킈킉킊킋킌킍킎킏킐킑킒킓킔킕킖킗킘킙킚킛킜킝킞킟킠킡킢킣키킥킦킧킨킩킪킫킬킭킮킯킰킱킲킳킴킵킶킷킸킹킺킻킼킽킾킿타탁탂탃탄탅탆탇탈탉탊탋탌탍탎탏탐탑탒탓탔탕탖탗탘탙탚탛태택탞탟탠탡탢탣탤탥탦탧탨탩탪탫탬탭탮탯탰탱탲탳탴탵탶탷탸탹탺탻탼탽탾탿",
      "톀톁톂톃톄톅톆톇톈톉톊톋톌톍톎톏톐톑톒톓톔톕톖톗톘톙톚톛톜톝톞톟토톡톢톣톤톥톦톧톨톩톪톫톬톭톮톯톰톱톲톳톴통톶톷톸톹톺톻톼톽톾톿퇀퇁퇂퇃퇄퇅퇆퇇퇈퇉퇊퇋퇌퇍퇎퇏퇐퇑퇒퇓퇔퇕퇖퇗퇘퇙퇚퇛퇜퇝퇞퇟퇠퇡퇢퇣퇤퇥퇦퇧퇨퇩퇪퇫퇬퇭퇮퇯퇰퇱퇲퇳퇴퇵퇶퇷퇸퇹퇺퇻퇼퇽퇾퇿",
      "튀튁튂튃튄튅튆튇튈튉튊튋튌튍튎튏튐튑튒튓튔튕튖튗튘튙튚튛튜튝튞튟튠튡튢튣튤튥튦튧튨튩튪튫튬튭튮튯튰튱튲튳튴튵튶튷트특튺튻튼튽튾튿틀틁틂틃틄틅틆틇틈틉틊틋틌틍틎틏틐틑틒틓틔틕틖틗틘틙틚틛틜틝틞틟틠틡틢틣틤틥틦틧틨틩틪틫틬틭틮틯티틱틲틳틴틵틶틷틸틹틺틻틼틽틾틿",
      "펀펁펂펃펄펅펆펇펈펉펊펋펌펍펎펏펐펑펒펓펔펕펖펗페펙펚펛펜펝펞펟펠펡펢펣펤펥펦펧펨펩펪펫펬펭펮펯펰펱펲펳펴펵펶펷편펹펺펻펼펽펾펿폀폁폂폃폄폅폆폇폈평폊폋폌폍폎폏폐폑폒폓폔폕폖폗폘폙폚폛폜폝폞폟폠폡폢폣폤폥폦폧폨폩폪폫포폭폮폯폰폱폲폳폴폵폶폷폸폹폺폻폼폽폾폿",
      "풀풁풂풃풄풅풆풇품풉풊풋풌풍풎풏풐풑풒풓풔풕풖풗풘풙풚풛풜풝풞풟풠풡풢풣풤풥풦풧풨풩풪풫풬풭풮풯풰풱풲풳풴풵풶풷풸풹풺풻풼풽풾풿퓀퓁퓂퓃퓄퓅퓆퓇퓈퓉퓊퓋퓌퓍퓎퓏퓐퓑퓒퓓퓔퓕퓖퓗퓘퓙퓚퓛퓜퓝퓞퓟퓠퓡퓢퓣퓤퓥퓦퓧퓨퓩퓪퓫퓬퓭퓮퓯퓰퓱퓲퓳퓴퓵퓶퓷퓸퓹퓺퓻퓼퓽퓾퓿",
      "햀햁햂햃햄햅햆햇했행햊햋햌햍햎햏햐햑햒햓햔햕햖햗햘햙햚햛햜햝햞햟햠햡햢햣햤향햦햧햨햩햪햫햬햭햮햯햰햱햲햳햴햵햶햷햸햹햺햻햼햽햾햿헀헁헂헃헄헅헆헇허헉헊헋헌헍헎헏헐헑헒헓헔헕헖헗험헙헚헛헜헝헞헟헠헡헢헣헤헥헦헧헨헩헪헫헬헭헮헯헰헱헲헳헴헵헶헷헸헹헺헻헼헽헾헿",
      "횀횁횂횃횄횅횆횇횈횉횊횋회획횎횏횐횑횒횓횔횕횖횗횘횙횚횛횜횝횞횟횠횡횢횣횤횥횦횧효횩횪횫횬횭횮횯횰횱횲횳횴횵횶횷횸횹횺횻횼횽횾횿훀훁훂훃후훅훆훇훈훉훊훋훌훍훎훏훐훑훒훓훔훕훖훗훘훙훚훛훜훝훞훟훠훡훢훣훤훥훦훧훨훩훪훫훬훭훮훯훰훱훲훳훴훵훶훷훸훹훺훻훼훽훾훿",
      "힀힁힂힃힄힅힆힇히힉힊힋힌힍힎힏힐힑힒힓힔힕힖힗힘힙힚힛힜힝힞힟힠힡힢힣힤힥힦힧힨힩힪힫힬힭힮힯ힰힱힲힳힴힵힶힷힸힹힺힻힼힽힾힿퟀퟁퟂퟃퟄퟅퟆ퟇퟈퟉퟊ퟋퟌퟍퟎퟏퟐퟑퟒퟓퟔퟕퟖퟗퟘퟙퟚퟛퟜퟝퟞퟟퟠퟡퟢퟣퟤퟥퟦퟧퟨퟩퟪퟫퟬퟭퟮퟯퟰퟱퟲퟳퟴퟵퟶퟷퟸퟹퟺퟻ퟼퟽퟾퟿",
      "",
      "",
      "",
      "",
      "",
      "",
      "",
      "",
      "",
      "",
      "",
      "",
      "",
      "",
      "",
      "",
      "",
      "",
      "",
      "",
      "",
      "",
      "",
      "",
      "",
      "呂女廬旅濾礪閭驪麗黎力曆歷轢年憐戀撚漣煉璉秊練聯輦蓮連鍊列劣咽烈裂說廉念捻殮簾獵令囹寧嶺怜玲瑩羚聆鈴零靈領例禮醴隸惡了僚寮尿料樂燎療蓼遼龍暈阮劉杻柳流溜琉留硫紐類六戮陸倫崙淪輪律慄栗率隆利吏履易李梨泥理痢罹裏裡里離匿溺吝燐璘藺隣鱗麟林淋臨立笠粒狀炙識什茶刺",
      "婢嬨廒廙彩徭惘慎愈憎慠懲戴揄搜摒敖晴朗望杖歹殺流滛滋漢瀞煮瞧爵犯猪瑱甆画瘝瘟益盛直睊着磌窱節类絛練缾者荒華蝹襁覆視調諸請謁諾諭謹變贈輸遲醙鉶陼難靖韛響頋頻鬒龜𢡊𢡄𣏕㮝䀘䀹𥉉𥳐𧻓齃龎﫚﫛﫜﫝﫞﫟﫠﫡﫢﫣﫤﫥﫦﫧﫨﫩﫪﫫﫬﫭﫮﫯﫰﫱﫲﫳﫴﫵﫶﫷﫸﫹﫺﫻﫼﫽﫾﫿",
      "ﮀﮁﮂﮃﮄﮅﮆﮇﮈﮉﮊﮋﮌﮍﮎﮏﮐﮑﮒﮓﮔﮕﮖﮗﮘﮙﮚﮛﮜﮝﮞﮟﮠﮡﮢﮣﮤﮥﮦﮧﮨﮩﮪﮫﮬﮭﮮﮯﮰﮱ﮲﮳﮴﮵﮶﮷﮸﮹﮺﮻﮼﮽﮾﮿﯀﯁﯂﯃﯄﯅﯆﯇﯈﯉﯊﯋﯌﯍﯎﯏﯐﯑﯒ﯓﯔﯕﯖﯗﯘﯙﯚﯛﯜﯝﯞﯟﯠﯡﯢﯣﯤﯥﯦﯧﯨﯩﯪﯫﯬﯭﯮﯯﯰﯱﯲﯳﯴﯵﯶﯷﯸﯹﯺﯻﯼﯽﯾﯿ",
      "ﲀﲁﲂﲃﲄﲅﲆﲇﲈﲉﲊﲋﲌﲍﲎﲏﲐﲑﲒﲓﲔﲕﲖﲗﲘﲙﲚﲛﲜﲝﲞﲟﲠﲡﲢﲣﲤﲥﲦﲧﲨﲩﲪﲫﲬﲭﲮﲯﲰﲱﲲﲳﲴﲵﲶﲷﲸﲹﲺﲻﲼﲽﲾﲿﳀﳁﳂﳃﳄﳅﳆﳇﳈﳉﳊﳋﳌﳍﳎﳏﳐﳑﳒﳓﳔﳕﳖﳗﳘﳙﳚﳛﳜﳝﳞﳟﳠﳡﳢﳣﳤﳥﳦﳧﳨﳩﳪﳫﳬﳭﳮﳯﳰﳱﳲﳳﳴﳵﳶﳷﳸﳹﳺﳻﳼﳽﳾﳿ",
      "ﶀﶁﶂﶃﶄﶅﶆﶇﶈﶉﶊﶋﶌﶍﶎﶏ﶐﶑ﶒﶓﶔﶕﶖﶗﶘﶙﶚﶛﶜﶝﶞﶟﶠﶡﶢﶣﶤﶥﶦﶧﶨﶩﶪﶫﶬﶭﶮﶯﶰﶱﶲﶳﶴﶵﶶﶷﶸﶹﶺﶻﶼﶽﶾﶿﷀﷁﷂﷃﷄﷅﷆﷇ﷈﷉﷊﷋﷌﷍﷎﷏﷐﷑﷒﷓﷔﷕﷖﷗﷘﷙﷚﷛﷜﷝﷞﷟﷠﷡﷢﷣﷤﷥﷦﷧﷨﷩﷪﷫﷬﷭﷮﷯ﷰﷱﷲﷳﷴﷵﷶﷷﷸﷹﷺﷻ﷼﷽﷾﷿",
      "ﺀﺁﺂﺃﺄﺅﺆﺇﺈﺉﺊﺋﺌﺍﺎﺏﺐﺑﺒﺓﺔﺕﺖﺗﺘﺙﺚﺛﺜﺝﺞﺟﺠﺡﺢﺣﺤﺥﺦﺧﺨﺩﺪﺫﺬﺭﺮﺯﺰﺱﺲﺳﺴﺵﺶﺷﺸﺹﺺﺻﺼﺽﺾﺿﻀﻁﻂﻃﻄﻅﻆﻇﻈﻉﻊﻋﻌﻍﻎﻏﻐﻑﻒﻓﻔﻕﻖﻗﻘﻙﻚﻛﻜﻝﻞﻟﻠﻡﻢﻣﻤﻥﻦﻧﻨﻩﻪﻫﻬﻭﻮﻯﻰﻱﻲﻳﻴﻵﻶﻷﻸﻹﻺﻻﻼ﻽﻾﻿",
      "ﾀﾁﾂﾃﾄﾅﾆﾇﾈﾉﾊﾋﾌﾍﾎﾏﾐﾑﾒﾓﾔﾕﾖﾗﾘﾙﾚﾛﾜﾝﾞﾟﾠﾡﾢﾣﾤﾥﾦﾧﾨﾩﾪﾫﾬﾭﾮﾯﾰﾱﾲﾳﾴﾵﾶﾷﾸﾹﾺﾻﾼﾽﾾ﾿￀￁ￂￃￄￅￆￇ￈￉ￊￋￌￍￎￏ￐￑ￒￓￔￕￖￗ￘￙ￚￛￜ￝￞￟￠￡￢￣￤￥￦￧￨￩￪￫￬￭￮￯￰￱￲￳￴￵￶￷￸￹￺￻￼�￾￿">>

RowChars == SubSeq([k \in 1..Len(Rows) |-> UnitSet(Rows[k])], 1, Len(Rows))

\* the high byte of the code points of row k
RowHigh(k) == IF k <= 216 THEN k - 1 ELSE k + 7

\* the surrogate units a string literal holds, in pairs: the k-th character
\* is the k-th high unit (0xD8xx-0xDBxx, low byte 0x80 or more) followed by
\* the k-th low unit (0xDCxx-0xDFxx, low byte 0x80 or more)
Surrogates ==
    "𰂀𰒁𰢂𰲃𱂄𱒅𱢆𱲇𲂈𲒉𲢊𲲋𳂌𳒍𳢎𳲏𴂐𴒑𴢒𴲓𵂔𵒕𵢖𵲗𶂘𶒙𶢚𶲛𷂜𷒝𷢞𷲟𸂠𸒡𸢢𸲣𹂤𹒥𹢦𹲧𺂨𺒩𺢪𺲫𻂬𻒭𻢮𻲯𼂰𼒱𼢲𼲳𽂴𽒵𽢶𽲷𾂸𾒹𾢺𾲻𿂼𿒽𿢾𿲿" \o
    "񀃀񀓁񀣂񀳃񁃄񁓅񁣆񁳇񂃈񂓉񂣊񂳋񃃌񃓍񃣎񃳏񄃐񄓑񄣒񄳓񅃔񅓕񅣖񅳗񆃘񆓙񆣚񆳛񇃜񇓝񇣞񇳟񈃠񈓡񈣢񈳣񉃤񉓥񉣦񉳧񊃨񊓩񊣪񊳫񋃬񋓭񋣮񋳯񌃰񌓱񌣲񌳳񍃴񍓵񍣶񍳷񎃸񎓹񎣺񎳻񏃼񏓽񏣾񏳿" \o
    "񰆀񰖁񰦂񰶃񱆄񱖅񱦆񱶇񲆈񲖉񲦊񲶋񳆌񳖍񳦎񳶏񴆐񴖑񴦒񴶓񵆔񵖕񵦖񵶗񶆘񶖙񶦚񶶛񷆜񷖝񷦞񷶟񸆠񸖡񸦢񸶣񹆤񹖥񹦦񹶧񺆨񺖩񺦪񺶫񻆬񻖭񻦮񻶯񼆰񼖱񼦲񼶳񽆴񽖵񽦶񽶷񾆸񾖹񾦺񾶻񿆼񿖽񿦾񿶿" \o
    "򀇀򀗁򀧂򀷃򁇄򁗅򁧆򁷇򂇈򂗉򂧊򂷋򃇌򃗍򃧎򃷏򄇐򄗑򄧒򄷓򅇔򅗕򅧖򅷗򆇘򆗙򆧚򆷛򇇜򇗝򇧞򇷟򈇠򈗡򈧢򈷣򉇤򉗥򉧦򉷧򊇨򊗩򊧪򊷫򋇬򋗭򋧮򋷯򌇰򌗱򌧲򌷳򍇴򍗵򍧶򍷷򎇸򎗹򎧺򎷻򏇼򏗽򏧾򏷿" \o
    "򰊀򰚁򰪂򰺃򱊄򱚅򱪆򱺇򲊈򲚉򲪊򲺋򳊌򳚍򳪎򳺏򴊐򴚑򴪒򴺓򵊔򵚕򵪖򵺗򶊘򶚙򶪚򶺛򷊜򷚝򷪞򷺟򸊠򸚡򸪢򸺣򹊤򹚥򹪦򹺧򺊨򺚩򺪪򺺫򻊬򻚭򻪮򻺯򼊰򼚱򼪲򼺳򽊴򽚵򽪶򽺷򾊸򾚹򾪺򾺻򿊼򿚽򿪾򿺿" \o
    "󀋀󀛁󀫂󀻃󁋄󁛅󁫆󁻇󂋈󂛉󂫊󂻋󃋌󃛍󃫎󃻏󄋐󄛑󄫒󄻓󅋔󅛕󅫖󅻗󆋘󆛙󆫚󆻛󇋜󇛝󇫞󇻟󈋠󈛡󈫢󈻣󉋤󉛥󉫦󉻧󊋨󊛩󊫪󊻫󋋬󋛭󋫮󋻯󌋰󌛱󌫲󌻳󍋴󍛵󍫶󍻷󎋸󎛹󎫺󎻻󏋼󏛽󏫾󏻿" \o
    "󰎀󰞁󰮂󰾃󱎄󱞅󱮆󱾇󲎈󲞉󲮊󲾋󳎌󳞍󳮎󳾏󴎐󴞑󴮒󴾓󵎔󵞕󵮖󵾗󶎘󶞙󶮚󶾛󷎜󷞝󷮞󷾟󸎠󸞡󸮢󸾣󹎤󹞥󹮦󹾧󺎨󺞩󺮪󺾫󻎬󻞭󻮮󻾯󼎰󼞱󼮲󼾳󽎴󽞵󽮶󽾷󾎸󾞹󾮺󾾻󿎼󿞽󿮾󿾿" \o
    "􀏀􀟁􀯂􀿃􁏄􁟅􁯆􁿇􂏈􂟉􂯊􂿋􃏌􃟍􃯎􃿏􄏐􄟑􄯒􄿓􅏔􅟕􅯖􅿗􆏘􆟙􆯚􆿛􇏜􇟝􇯞􇿟􈏠􈟡􈯢􈿣􉏤􉟥􉯦􉿧􊏨􊟩􊯪􊿫􋏬􋟭􋯮􋿯􌏰􌟱􌯲􌿳􍏴􍟵􍯶􍿷􎏸􎟹􎯺􎿻􏏼􏟽􏯾􏿿"

\* the place of the k-th of these units within its range of 1024
SurrogateOffset(k) == ((k - 1) \div 128) * 256 + 128 + ((k - 1) % 128)

\* the value of each unit of Ascii
AsciiOrd == [c \in UnitSet(Ascii) |-> IndexIn(c, Ascii)]

AsciiUnits == DOMAIN AsciiOrd

\* the value of a UTF-16 unit c of a string
Ord(c) ==
    IF c \in AsciiUnits THEN AsciiOrd[c]
    ELSE IF \E k \in 1..Len(Rows) : c \in RowChars[k]
    THEN LET k == CHOOSE k \in 1..Len(Rows) : c \in RowChars[k]
         IN  RowHigh(k) * 256 + 127 + IndexIn(c, Rows[k])
    ELSE (IF IndexIn(c, Surrogates) % 2 = 1 THEN 55296 ELSE 56320)
           + SurrogateOffset((IndexIn(c, Surrogates) + 1) \div 2)

\* the UTF-16 units of a string
Units(s) == SubSeq([i \in 1..Len(s) |-> Ord(Unit(s, i))], 1, Len(s))

IsHighSurrogate(u) == 55296 <= u /\ u <= 56319

IsLowSurrogate(u) == 56320 <= u /\ u <= 57343

\* the k-th least element of a set of integers
Kth(S, k) == CHOOSE i \in S : Cardinality({j \in S : j <= i}) = k

\* the code points the units at the indices `firsts` begin: a high surrogate
\* and the low one behind it are one code point
PointsAt(units, firsts) ==
    SubSeq([k \in 1..Cardinality(firsts) |->
               LET i == Kth(firsts, k)
               IN  IF IsHighSurrogate(units[i]) /\ (i + 1) \notin firsts /\ i < Len(units)
                   THEN 65536 + (units[i] - 55296) * 1024 + (units[i + 1] - 56320)
                   ELSE units[i]],
           1, Cardinality(firsts))

\* the code points of a sequence of UTF-16 units
Decoded(units) ==
    IF \A i \in 1..Len(units) : ~IsLowSurrogate(units[i]) THEN units
    ELSE PointsAt(units, {i \in 1..Len(units) :
                             ~(IsLowSurrogate(units[i]) /\ i > 1
                                 /\ IsHighSurrogate(units[i - 1]))})

\* the text of a string
Points(s) == Decoded(Units(s))

\* the code points of the characters of a string
CharSet(s) == {Points(s)[i] : i \in 1..Len(Points(s))}

\* the code points c..d of a class range
CharRange(c, d) == Points(c)[1]..Points(d)[1]

\* the text of a number: str(n)
Digits(n) == Points(ToString(n))

InRanges(cp, ranges) ==
    \E k \in 1..Len(ranges) : ranges[k][1] <= cp /\ cp <= ranges[k][2]

\* the code points of ranges <<first, last>>
PointsIn(ranges) == UNION {ranges[k][1]..ranges[k][2] : k \in 1..Len(ranges)}

\* str.isspace(): the code points str.strip() removes and \s matches
\* (Unicode 14.0.0, as are the tables below)
SpacePoints ==
    {9, 10, 11, 12, 13, 28, 29, 30, 31, 32, 133, 160, 5760, 8192, 8193, 8194, 8195, 8196, 8197, 8198, 8199, 8200, 8201, 8202, 8232, 8233, 8239, 8287, 12288}

\* \d: the decimal digits, as ranges <<first, last>>
DigitRanges ==
    <<
      <<48, 57>>, <<1632, 1641>>, <<1776, 1785>>, <<1984, 1993>>, <<2406, 2415>>,
      <<2534, 2543>>, <<2662, 2671>>, <<2790, 2799>>, <<2918, 2927>>, <<3046, 3055>>,
      <<3174, 3183>>, <<3302, 3311>>, <<3430, 3439>>, <<3558, 3567>>, <<3664, 3673>>,
      <<3792, 3801>>, <<3872, 3881>>, <<4160, 4169>>, <<4240, 4249>>, <<6112, 6121>>,
      <<6160, 6169>>, <<6470, 6479>>, <<6608, 6617>>, <<6784, 6793>>, <<6800, 6809>>,
      <<6992, 7001>>, <<7088, 7097>>, <<7232, 7241>>, <<7248, 7257>>, <<42528, 42537>>,
      <<43216, 43225>>, <<43264, 43273>>, <<43472, 43481>>, <<43504, 43513>>, <<43600, 43609>>,
      <<44016, 44025>>, <<65296, 65305>>, <<66720, 66729>>, <<68912, 68921>>, <<69734, 69743>>,
      <<69872, 69881>>, <<69942, 69951>>, <<70096, 70105>>, <<70384, 70393>>, <<70736, 70745>>,
      <<70864, 70873>>, <<71248, 71257>>, <<71360, 71369>>, <<71472, 71481>>, <<71904, 71913>>,
      <<72016, 72025>>, <<72784, 72793>>, <<73040, 73049>>, <<73120, 73129>>, <<92768, 92777>>,
      <<92864, 92873>>, <<93008, 93017>>, <<120782, 120831>>, <<123200, 123209>>,
      <<123632, 123641>>, <<125264, 125273>>, <<130032, 130041>>>>

\* \w: str.isalnum() or "_", as ranges <<first, last>>
WordRanges ==
    <<
      <<48, 57>>, <<65, 90>>, <<95, 95>>, <<97, 122>>, <<170, 170>>, <<178, 179>>, <<181, 181>>,
      <<185, 186>>, <<188, 190>>, <<192, 214>>, <<216, 246>>, <<248, 705>>, <<710, 721>>,
      <<736, 740>>, <<748, 748>>, <<750, 750>>, <<880, 884>>, <<886, 887>>, <<890, 893>>,
      <<895, 895>>, <<902, 902>>, <<904, 906>>, <<908, 908>>, <<910, 929>>, <<931, 1013>>,
      <<1015, 1153>>, <<1162, 1327>>, <<1329, 1366>>, <<1369, 1369>>, <<1376, 1416>>,
      <<1488, 1514>>, <<1519, 1522>>, <<1568, 1610>>, <<1632, 1641>>, <<1646, 1647>>,
      <<1649, 1747>>, <<1749, 1749>>, <<1765, 1766>>, <<1774, 1788>>, <<1791, 1791>>,
      <<1808, 1808>>, <<1810, 1839>>, <<1869, 1957>>, <<1969, 1969>>, <<1984, 2026>>,
      <<2036, 2037>>, <<2042, 2042>>, <<2048, 2069>>, <<2074, 2074>>, <<2084, 2084>>,
      <<2088, 2088>>, <<2112, 2136>>, <<2144, 2154>>, <<2160, 2183>>, <<2185, 2190>>,
      <<2208, 2249>>, <<2308, 2361>>, <<2365, 2365>>, <<2384, 2384>>, <<2392, 2401>>,
      <<2406, 2415>>, <<2417, 2432>>, <<2437, 2444>>, <<2447, 2448>>, <<2451, 2472>>,
      <<2474, 2480>>, <<2482, 2482>>, <<2486, 2489>>, <<2493, 2493>>, <<2510, 2510>>,
      <<2524, 2525>>, <<2527, 2529>>, <<2534, 2545>>, <<2548, 2553>>, <<2556, 2556>>,
      <<2565, 2570>>, <<2575, 2576>>, <<2579, 2600>>, <<2602, 2608>>, <<2610, 2611>>,
      <<2613, 2614>>, <<2616, 2617>>, <<2649, 2652>>, <<2654, 2654>>, <<2662, 2671>>,
      <<2674, 2676>>, <<2693, 2701>>, <<2703, 2705>>, <<2707, 2728>>, <<2730, 2736>>,
      <<2738, 2739>>, <<2741, 2745>>, <<2749, 2749>>, <<2768, 2768>>, <<2784, 2785>>,
      <<2790, 2799>>, <<2809, 2809>>, <<2821, 2828>>, <<2831, 2832>>, <<2835, 2856>>,
      <<2858, 2864>>, <<2866, 2867>>, <<2869, 2873>>, <<2877, 2877>>, <<2908, 2909>>,
      <<2911, 2913>>, <<2918, 2927>>, <<2929, 2935>>, <<2947, 2947>>, <<2949, 2954>>,
      <<2958, 2960>>, <<2962, 2965>>, <<2969, 2970>>, <<2972, 2972>>, <<2974, 2975>>,
      <<2979, 2980>>, <<2984, 2986>>, <<2990, 3001>>, <<3024, 3024>>, <<3046, 3058>>,
      <<3077, 3084>>, <<3086, 3088>>, <<3090, 3112>>, <<3114, 3129>>, <<3133, 3133>>,
      <<3160, 3162>>, <<3165, 3165>>, <<3168, 3169>>, <<3174, 3183>>, <<3192, 3198>>,
      <<3200, 3200>>, <<3205, 3212>>, <<3214, 3216>>, <<3218, 3240>>, <<3242, 3251>>,
      <<3253, 3257>>, <<3261, 3261>>, <<3293, 3294>>, <<3296, 3297>>, <<3302, 3311>>,
      <<3313, 3314>>, <<3332, 3340>>, <<3342, 3344>>, <<3346, 3386>>, <<3389, 3389>>,
      <<3406, 3406>>, <<3412, 3414>>, <<3416, 3425>>, <<3430, 3448>>, <<3450, 3455>>,
      <<3461, 3478>>, <<3482, 3505>>, <<3507, 3515>>, <<3517, 3517>>, <<3520, 3526>>,
      <<3558, 3567>>, <<3585, 3632>>, <<3634, 3635>>, <<3648, 3654>>, <<3664, 3673>>,
      <<3713, 3714>>, <<3716, 3716>>, <<3718, 3722>>, <<3724, 3747>>, <<3749, 3749>>,
      <<3751, 3760>>, <<3762, 3763>>, <<3773, 3773>>, <<3776, 3780>>, <<3782, 3782>>,
      <<3792, 3801>>, <<3804, 3807>>, <<3840, 3840>>, <<3872, 3891>>, <<3904, 3911>>,
      <<3913, 3948>>, <<3976, 3980>>, <<4096, 4138>>, <<4159, 4169>>, <<4176, 4181>>,
      <<4186, 4189>>, <<4193, 4193>>, <<4197, 4198>>, <<4206, 4208>>, <<4213, 4225>>,
      <<4238, 4238>>, <<4240, 4249>>, <<4256, 4293>>, <<4295, 4295>>, <<4301, 4301>>,
      <<4304, 4346>>, <<4348, 4680>>, <<4682, 4685>>, <<4688, 4694>>, <<4696, 4696>>,
      <<4698, 4701>>, <<4704, 4744>>, <<4746, 4749>>, <<4752, 4784>>, <<4786, 4789>>,
      <<4792, 4798>>, <<4800, 4800>>, <<4802, 4805>>, <<4808, 4822>>, <<4824, 4880>>,
      <<4882, 4885>>, <<4888, 4954>>, <<4969, 4988>>, <<4992, 5007>>, <<5024, 5109>>,
      <<5112, 5117>>, <<5121, 5740>>, <<5743, 5759>>, <<5761, 5786>>, <<5792, 5866>>,
      <<5870, 5880>>, <<5888, 5905>>, <<5919, 5937>>, <<5952, 5969>>, <<5984, 5996>>,
      <<5998, 6000>>, <<6016, 6067>>, <<6103, 6103>>, <<6108, 6108>>, <<6112, 6121>>,
      <<6128, 6137>>, <<6160, 6169>>, <<6176, 6264>>, <<6272, 6276>>, <<6279, 6312>>,
      <<6314, 6314>>, <<6320, 6389>>, <<6400, 6430>>, <<6470, 6509>>, <<6512, 6516>>,
      <<6528, 6571>>, <<6576, 6601>>, <<6608, 6618>>, <<6656, 6678>>, <<6688, 6740>>,
      <<6784, 6793>>, <<6800, 6809>>, <<6823, 6823>>, <<6917, 6963>>, <<6981, 6988>>,
      <<6992, 7001>>, <<7043, 7072>>, <<7086, 7141>>, <<7168, 7203>>, <<7232, 7241>>,
      <<7245, 7293>>, <<7296, 7304>>, <<7312, 7354>>, <<7357, 7359>>, <<7401, 7404>>,
      <<7406, 7411>>, <<7413, 7414>>, <<7418, 7418>>, <<7424, 7615>>, <<7680, 7957>>,
      <<7960, 7965>>, <<7968, 8005>>, <<8008, 8013>>, <<8016, 8023>>, <<8025, 8025>>,
      <<8027, 8027>>, <<8029, 8029>>, <<8031, 8061>>, <<8064, 8116>>, <<8118, 8124>>,
      <<8126, 8126>>, <<8130, 8132>>, <<8134, 8140>>, <<8144, 8147>>, <<8150, 8155>>,
      <<8160, 8172>>, <<8178, 8180>>, <<8182, 8188>>, <<8304, 8305>>, <<8308, 8313>>,
      <<8319, 8329>>, <<8336, 8348>>, <<8450, 8450>>, <<8455, 8455>>, <<8458, 8467>>,
      <<8469, 8469>>, <<8473, 8477>>, <<8484, 8484>>, <<8486, 8486>>, <<8488, 8488>>,
      <<8490, 8493>>, <<8495, 8505>>, <<8508, 8511>>, <<8517, 8521>>, <<8526, 8526>>,
      <<8528, 8585>>, <<9312, 9371>>, <<9450, 9471>>, <<10102, 10131>>, <<11264, 11492>>,
      <<11499, 11502>>, <<11506, 11507>>, <<11517, 11517>>, <<11520, 11557>>, <<11559, 11559>>,
      <<11565, 11565>>, <<11568, 11623>>, <<11631, 11631>>, <<11648, 11670>>, <<11680, 11686>>,
      <<11688, 11694>>, <<11696, 11702>>, <<11704, 11710>>, <<11712, 11718>>, <<11720, 11726>>,
      <<11728, 11734>>, <<11736, 11742>>, <<11823, 11823>>, <<12293, 12295>>, <<12321, 12329>>,
      <<12337, 12341>>, <<12344, 12348>>, <<12353, 12438>>, <<12445, 12447>>, <<12449, 12538>>,
      <<12540, 12543>>, <<12549, 12591>>, <<12593, 12686>>, <<12690, 12693>>, <<12704, 12735>>,
      <<12784, 12799>>, <<12832, 12841>>, <<12872, 12879>>, <<12881, 12895>>, <<12928, 12937>>,
      <<12977, 12991>>, <<13312, 19903>>, <<19968, 42124>>, <<42192, 42237>>, <<42240, 42508>>,
      <<42512, 42539>>, <<42560, 42606>>, <<42623, 42653>>, <<42656, 42735>>, <<42775, 42783>>,
      <<42786, 42888>>, <<42891, 42954>>, <<42960, 42961>>, <<42963, 42963>>, <<42965, 42969>>,
      <<42994, 43009>>, <<43011, 43013>>, <<43015, 43018>>, <<43020, 43042>>, <<43056, 43061>>,
      <<43072, 43123>>, <<43138, 43187>>, <<43216, 43225>>, <<43250, 43255>>, <<43259, 43259>>,
      <<43261, 43262>>, <<43264, 43301>>, <<43312, 43334>>, <<43360, 43388>>, <<43396, 43442>>,
      <<43471, 43481>>, <<43488, 43492>>, <<43494, 43518>>, <<43520, 43560>>, <<43584, 43586>>,
      <<43588, 43595>>, <<43600, 43609>>, <<43616, 43638>>, <<43642, 43642>>, <<43646, 43695>>,
      <<43697, 43697>>, <<43701, 43702>>, <<43705, 43709>>, <<43712, 43712>>, <<43714, 43714>>,
      <<43739, 43741>>, <<43744, 43754>>, <<43762, 43764>>, <<43777, 43782>>, <<43785, 43790>>,
      <<43793, 43798>>, <<43808, 43814>>, <<43816, 43822>>, <<43824, 43866>>, <<43868, 43881>>,
      <<43888, 44002>>, <<44016, 44025>>, <<44032, 55203>>, <<55216, 55238>>, <<55243, 55291>>,
      <<63744, 64109>>, <<64112, 64217>>, <<64256, 64262>>, <<64275, 64279>>, <<64285, 64285>>,
      <<64287, 64296>>, <<64298, 64310>>, <<64312, 64316>>, <<64318, 64318>>, <<64320, 64321>>,
      <<64323, 64324>>, <<64326, 64433>>, <<64467, 64829>>, <<64848, 64911>>, <<64914, 64967>>,
      <<65008, 65019>>, <<65136, 65140>>, <<65142, 65276>>, <<65296, 65305>>, <<65313, 65338>>,
      <<65345, 65370>>, <<65382, 65470>>, <<65474, 65479>>, <<65482, 65487>>, <<65490, 65495>>,
      <<65498, 65500>>, <<65536, 65547>>, <<65549, 65574>>, <<65576, 65594>>, <<65596, 65597>>,
      <<65599, 65613>>, <<65616, 65629>>, <<65664, 65786>>, <<65799, 65843>>, <<65856, 65912>>,
      <<65930, 65931>>, <<66176, 66204>>, <<66208, 66256>>, <<66273, 66299>>, <<66304, 66339>>,
      <<66349, 66378>>, <<66384, 66421>>, <<66432, 66461>>, <<66464, 66499>>, <<66504, 66511>>,
      <<66513, 66517>>, <<66560, 66717>>, <<66720, 66729>>, <<66736, 66771>>, <<66776, 66811>>,
      <<66816, 66855>>, <<66864, 66915>>, <<66928, 66938>>, <<66940, 66954>>, <<66956, 66962>>,
      <<66964, 66965>>, <<66967, 66977>>, <<66979, 66993>>, <<66995, 67001>>, <<67003, 67004>>,
      <<67072, 67382>>, <<67392, 67413>>, <<67424, 67431>>, <<67456, 67461>>, <<67463, 67504>>,
      <<67506, 67514>>, <<67584, 67589>>, <<67592, 67592>>, <<67594, 67637>>, <<67639, 67640>>,
      <<67644, 67644>>, <<67647, 67669>>, <<67672, 67702>>, <<67705, 67742>>, <<67751, 67759>>,
      <<67808, 67826>>, <<67828, 67829>>, <<67835, 67867>>, <<67872, 67897>>, <<67968, 68023>>,
      <<68028, 68047>>, <<68050, 68096>>, <<68112, 68115>>, <<68117, 68119>>, <<68121, 68149>>,
      <<68160, 68168>>, <<68192, 68222>>, <<68224, 68255>>, <<68288, 68295>>, <<68297, 68324>>,
      <<68331, 68335>>, <<68352, 68405>>, <<68416, 68437>>, <<68440, 68466>>, <<68472, 68497>>,
      <<68521, 68527>>, <<68608, 68680>>, <<68736, 68786>>, <<68800, 68850>>, <<68858, 68899>>,
      <<68912, 68921>>, <<69216, 69246>>, <<69248, 69289>>, <<69296, 69297>>, <<69376, 69415>>,
      <<69424, 69445>>, <<69457, 69460>>, <<69488, 69505>>, <<69552, 69579>>, <<69600, 69622>>,
      <<69635, 69687>>, <<69714, 69743>>, <<69745, 69746>>, <<69749, 69749>>, <<69763, 69807>>,
      <<69840, 69864>>, <<69872, 69881>>, <<69891, 69926>>, <<69942, 69951>>, <<69956, 69956>>,
      <<69959, 69959>>, <<69968, 70002>>, <<70006, 70006>>, <<70019, 70066>>, <<70081, 70084>>,
      <<70096, 70106>>, <<70108, 70108>>, <<70113, 70132>>, <<70144, 70161>>, <<70163, 70187>>,
      <<70272, 70278>>, <<70280, 70280>>, <<70282, 70285>>, <<70287, 70301>>, <<70303, 70312>>,
      <<70320, 70366>>, <<70384, 70393>>, <<70405, 70412>>, <<70415, 70416>>, <<70419, 70440>>,
      <<70442, 70448>>, <<70450, 70451>>, <<70453, 70457>>, <<70461, 70461>>, <<70480, 70480>>,
      <<70493, 70497>>, <<70656, 70708>>, <<70727, 70730>>, <<70736, 70745>>, <<70751, 70753>>,
      <<70784, 70831>>, <<70852, 70853>>, <<70855, 70855>>, <<70864, 70873>>, <<71040, 71086>>,
      <<71128, 71131>>, <<71168, 71215>>, <<71236, 71236>>, <<71248, 71257>>, <<71296, 71338>>,
      <<71352, 71352>>, <<71360, 71369>>, <<71424, 71450>>, <<71472, 71483>>, <<71488, 71494>>,
      <<71680, 71723>>, <<71840, 71922>>, <<71935, 71942>>, <<71945, 71945>>, <<71948, 71955>>,
      <<71957, 71958>>, <<71960, 71983>>, <<71999, 71999>>, <<72001, 72001>>, <<72016, 72025>>,
      <<72096, 72103>>, <<72106, 72144>>, <<72161, 72161>>, <<72163, 72163>>, <<72192, 72192>>,
      <<72203, 72242>>, <<72250, 72250>>, <<72272, 72272>>, <<72284, 72329>>, <<72349, 72349>>,
      <<72368, 72440>>, <<72704, 72712>>, <<72714, 72750>>, <<72768, 72768>>, <<72784, 72812>>,
      <<72818, 72847>>, <<72960, 72966>>, <<72968, 72969>>, <<72971, 73008>>, <<73030, 73030>>,
      <<73040, 73049>>, <<73056, 73061>>, <<73063, 73064>>, <<73066, 73097>>, <<73112, 73112>>,
      <<73120, 73129>>, <<73440, 73458>>, <<73648, 73648>>, <<73664, 73684>>, <<73728, 74649>>,
      <<74752, 74862>>, <<74880, 75075>>, <<77712, 77808>>, <<77824, 78894>>, <<82944, 83526>>,
      <<92160, 92728>>, <<92736, 92766>>, <<92768, 92777>>, <<92784, 92862>>, <<92864, 92873>>,
      <<92880, 92909>>, <<92928, 92975>>, <<92992, 92995>>, <<93008, 93017>>, <<93019, 93025>>,
      <<93027, 93047>>, <<93053, 93071>>, <<93760, 93846>>, <<93952, 94026>>, <<94032, 94032>>,
      <<94099, 94111>>, <<94176, 94177>>, <<94179, 94179>>, <<94208, 100343>>,
      <<100352, 101589>>, <<101632, 101640>>, <<110576, 110579>>, <<110581, 110587>>,
      <<110589, 110590>>, <<110592, 110882>>, <<110928, 110930>>, <<110948, 110951>>,
      <<110960, 111355>>, <<113664, 113770>>, <<113776, 113788>>, <<113792, 113800>>,
      <<113808, 113817>>, <<119520, 119539>>, <<119648, 119672>>, <<119808, 119892>>,
      <<119894, 119964>>, <<119966, 119967>>, <<119970, 119970>>, <<119973, 119974>>,
      <<119977, 119980>>, <<119982, 119993>>, <<119995, 119995>>, <<119997, 120003>>,
      <<120005, 120069>>, <<120071, 120074>>, <<120077, 120084>>, <<120086, 120092>>,
      <<120094, 120121>>, <<120123, 120126>>, <<120128, 120132>>, <<120134, 120134>>,
      <<120138, 120144>>, <<120146, 120485>>, <<120488, 120512>>, <<120514, 120538>>,
      <<120540, 120570>>, <<120572, 120596>>, <<120598, 120628>>, <<120630, 120654>>,
      <<120656, 120686>>, <<120688, 120712>>, <<120714, 120744>>, <<120746, 120770>>,
      <<120772, 120779>>, <<120782, 120831>>, <<122624, 122654>>, <<123136, 123180>>,
      <<123191, 123197>>, <<123200, 123209>>, <<123214, 123214>>, <<123536, 123565>>,
      <<123584, 123627>>, <<123632, 123641>>, <<124896, 124902>>, <<124904, 124907>>,
      <<124909, 124910>>, <<124912, 124926>>, <<124928, 125124>>, <<125127, 125135>>,
      <<125184, 125251>>, <<125259, 125259>>, <<125264, 125273>>, <<126065, 126123>>,
      <<126125, 126127>>, <<126129, 126132>>, <<126209, 126253>>, <<126255, 126269>>,
      <<126464, 126467>>, <<126469, 126495>>, <<126497, 126498>>, <<126500, 126500>>,
      <<126503, 126503>>, <<126505, 126514>>, <<126516, 126519>>, <<126521, 126521>>,
      <<126523, 126523>>, <<126530, 126530>>, <<126535, 126535>>, <<126537, 126537>>,
      <<126539, 126539>>, <<126541, 126543>>, <<126545, 126546>>, <<126548, 126548>>,
      <<126551, 126551>>, <<126553, 126553>>, <<126555, 126555>>, <<126557, 126557>>,
      <<126559, 126559>>, <<126561, 126562>>, <<126564, 126564>>, <<126567, 126570>>,
      <<126572, 126578>>, <<126580, 126583>>, <<126585, 126588>>, <<126590, 126590>>,
      <<126592, 126601>>, <<126603, 126619>>, <<126625, 126627>>, <<126629, 126633>>,
      <<126635, 126651>>, <<127232, 127244>>, <<130032, 130041>>, <<131072, 173791>>,
      <<173824, 177976>>, <<177984, 178205>>, <<178208, 183969>>, <<183984, 191456>>,
      <<194560, 195101>>, <<196608, 201546>>>>

\* str.upper() of one character that becomes one character: runs
\* <<first, last, step, delta>>, every step-th code point from first to last
\* moving by delta
UpperRuns ==
    <<
      <<97, 122, 1, -32>>, <<181, 181, 1, 743>>, <<224, 246, 1, -32>>, <<248, 254, 1, -32>>,
      <<255, 255, 1, 121>>, <<257, 303, 2, -1>>, <<305, 305, 1, -232>>, <<307, 311, 2, -1>>,
      <<314, 328, 2, -1>>, <<331, 375, 2, -1>>, <<378, 382, 2, -1>>, <<383, 383, 1, -300>>,
      <<384, 384, 1, 195>>, <<387, 389, 2, -1>>, <<392, 392, 1, -1>>, <<396, 396, 1, -1>>,
      <<402, 402, 1, -1>>, <<405, 405, 1, 97>>, <<409, 409, 1, -1>>, <<410, 410, 1, 163>>,
      <<414, 414, 1, 130>>, <<417, 421, 2, -1>>, <<424, 424, 1, -1>>, <<429, 429, 1, -1>>,
      <<432, 432, 1, -1>>, <<436, 438, 2, -1>>, <<441, 441, 1, -1>>, <<445, 445, 1, -1>>,
      <<447, 447, 1, 56>>, <<453, 453, 1, -1>>, <<454, 454, 1, -2>>, <<456, 456, 1, -1>>,
      <<457, 457, 1, -2>>, <<459, 459, 1, -1>>, <<460, 460, 1, -2>>, <<462, 476, 2, -1>>,
      <<477, 477, 1, -79>>, <<479, 495, 2, -1>>, <<498, 498, 1, -1>>, <<499, 499, 1, -2>>,
      <<501, 501, 1, -1>>, <<505, 543, 2, -1>>, <<547, 563, 2, -1>>, <<572, 572, 1, -1>>,
      <<575, 576, 1, 10815>>, <<578, 578, 1, -1>>, <<583, 591, 2, -1>>, <<592, 592, 1, 10783>>,
      <<593, 593, 1, 10780>>, <<594, 594, 1, 10782>>, <<595, 595, 1, -210>>,
      <<596, 596, 1, -206>>, <<598, 599, 1, -205>>, <<601, 601, 1, -202>>,
      <<603, 603, 1, -203>>, <<604, 604, 1, 42319>>, <<608, 608, 1, -205>>,
      <<609, 609, 1, 42315>>, <<611, 611, 1, -207>>, <<613, 613, 1, 42280>>,
      <<614, 614, 1, 42308>>, <<616, 616, 1, -209>>, <<617, 617, 1, -211>>,
      <<618, 618, 1, 42308>>, <<619, 619, 1, 10743>>, <<620, 620, 1, 42305>>,
      <<623, 623, 1, -211>>, <<625, 625, 1, 10749>>, <<626, 626, 1, -213>>,
      <<629, 629, 1, -214>>, <<637, 637, 1, 10727>>, <<640, 640, 1, -218>>,
      <<642, 642, 1, 42307>>, <<643, 643, 1, -218>>, <<647, 647, 1, 42282>>,
      <<648, 648, 1, -218>>, <<649, 649, 1, -69>>, <<650, 651, 1, -217>>, <<652, 652, 1, -71>>,
      <<658, 658, 1, -219>>, <<669, 669, 1, 42261>>, <<670, 670, 1, 42258>>,
      <<837, 837, 1, 84>>, <<881, 883, 2, -1>>, <<887, 887, 1, -1>>, <<891, 893, 1, 130>>,
      <<940, 940, 1, -38>>, <<941, 943, 1, -37>>, <<945, 961, 1, -32>>, <<962, 962, 1, -31>>,
      <<963, 971, 1, -32>>, <<972, 972, 1, -64>>, <<973, 974, 1, -63>>, <<976, 976, 1, -62>>,
      <<977, 977, 1, -57>>, <<981, 981, 1, -47>>, <<982, 982, 1, -54>>, <<983, 983, 1, -8>>,
      <<985, 1007, 2, -1>>, <<1008, 1008, 1, -86>>, <<1009, 1009, 1, -80>>,
      <<1010, 1010, 1, 7>>, <<1011, 1011, 1, -116>>, <<1013, 1013, 1, -96>>,
      <<1016, 1016, 1, -1>>, <<1019, 1019, 1, -1>>, <<1072, 1103, 1, -32>>,
      <<1104, 1119, 1, -80>>, <<1121, 1153, 2, -1>>, <<1163, 1215, 2, -1>>,
      <<1218, 1230, 2, -1>>, <<1231, 1231, 1, -15>>, <<1233, 1327, 2, -1>>,
      <<1377, 1414, 1, -48>>, <<4304, 4346, 1, 3008>>, <<4349, 4351, 1, 3008>>,
      <<5112, 5117, 1, -8>>, <<7296, 7296, 1, -6254>>, <<7297, 7297, 1, -6253>>,
      <<7298, 7298, 1, -6244>>, <<7299, 7300, 1, -6242>>, <<7301, 7301, 1, -6243>>,
      <<7302, 7302, 1, -6236>>, <<7303, 7303, 1, -6181>>, <<7304, 7304, 1, 35266>>,
      <<7545, 7545, 1, 35332>>, <<7549, 7549, 1, 3814>>, <<7566, 7566, 1, 35384>>,
      <<7681, 7829, 2, -1>>, <<7835, 7835, 1, -59>>, <<7841, 7935, 2, -1>>,
      <<7936, 7943, 1, 8>>, <<7952, 7957, 1, 8>>, <<7968, 7975, 1, 8>>, <<7984, 7991, 1, 8>>,
      <<8000, 8005, 1, 8>>, <<8017, 8023, 2, 8>>, <<8032, 8039, 1, 8>>, <<8048, 8049, 1, 74>>,
      <<8050, 8053, 1, 86>>, <<8054, 8055, 1, 100>>, <<8056, 8057, 1, 128>>,
      <<8058, 8059, 1, 112>>, <<8060, 8061, 1, 126>>, <<8112, 8113, 1, 8>>,
      <<8126, 8126, 1, -7205>>, <<8144, 8145, 1, 8>>, <<8160, 8161, 1, 8>>,
      <<8165, 8165, 1, 7>>, <<8526, 8526, 1, -28>>, <<8560, 8575, 1, -16>>,
      <<8580, 8580, 1, -1>>, <<9424, 9449, 1, -26>>, <<11312, 11359, 1, -48>>,
      <<11361, 11361, 1, -1>>, <<11365, 11365, 1, -10795>>, <<11366, 11366, 1, -10792>>,
      <<11368, 11372, 2, -1>>, <<11379, 11379, 1, -1>>, <<11382, 11382, 1, -1>>,
      <<11393, 11491, 2, -1>>, <<11500, 11502, 2, -1>>, <<11507, 11507, 1, -1>>,
      <<11520, 11557, 1, -7264>>, <<11559, 11559, 1, -7264>>, <<11565, 11565, 1, -7264>>,
      <<42561, 42605, 2, -1>>, <<42625, 42651, 2, -1>>, <<42787, 42799, 2, -1>>,
      <<42803, 42863, 2, -1>>, <<42874, 42876, 2, -1>>, <<42879, 42887, 2, -1>>,
      <<42892, 42892, 1, -1>>, <<42897, 42899, 2, -1>>, <<42900, 42900, 1, 48>>,
      <<42903, 42921, 2, -1>>, <<42933, 42947, 2, -1>>, <<42952, 42954, 2, -1>>,
      <<42961, 42961, 1, -1>>, <<42967, 42969, 2, -1>>, <<42998, 42998, 1, -1>>,
      <<43859, 43859, 1, -928>>, <<43888, 43967, 1, -38864>>, <<65345, 65370, 1, -32>>,
      <<66600, 66639, 1, -40>>, <<66776, 66811, 1, -40>>, <<66967, 66977, 1, -39>>,
      <<66979, 66993, 1, -39>>, <<66995, 67001, 1, -39>>, <<67003, 67004, 1, -39>>,
      <<68800, 68850, 1, -64>>, <<71872, 71903, 1, -32>>, <<93792, 93823, 1, -32>>,
      <<125218, 125251, 1, -34>>>>

\* str.upper() of one character that becomes several: <<code point, result>>
UpperSpecial ==
    <<
      <<223, <<83, 83>>>>, <<329, <<700, 78>>>>, <<496, <<74, 780>>>>,
      <<912, <<921, 776, 769>>>>, <<944, <<933, 776, 769>>>>, <<1415, <<1333, 1362>>>>,
      <<7830, <<72, 817>>>>, <<7831, <<84, 776>>>>, <<7832, <<87, 778>>>>,
      <<7833, <<89, 778>>>>, <<7834, <<65, 702>>>>, <<8016, <<933, 787>>>>,
      <<8018, <<933, 787, 768>>>>, <<8020, <<933, 787, 769>>>>, <<8022, <<933, 787, 834>>>>,
      <<8064, <<7944, 921>>>>, <<8065, <<7945, 921>>>>, <<8066, <<7946, 921>>>>,
      <<8067, <<7947, 921>>>>, <<8068, <<7948, 921>>>>, <<8069, <<7949, 921>>>>,
      <<8070, <<7950, 921>>>>, <<8071, <<7951, 921>>>>, <<8072, <<7944, 921>>>>,
      <<8073, <<7945, 921>>>>, <<8074, <<7946, 921>>>>, <<8075, <<7947, 921>>>>,
      <<8076, <<7948, 921>>>>, <<8077, <<7949, 921>>>>, <<8078, <<7950, 921>>>>,
      <<8079, <<7951, 921>>>>, <<8080, <<7976, 921>>>>, <<8081, <<7977, 921>>>>,
      <<8082, <<7978, 921>>>>, <<8083, <<7979, 921>>>>, <<8084, <<7980, 921>>>>,
      <<8085, <<7981, 921>>>>, <<8086, <<7982, 921>>>>, <<8087, <<7983, 921>>>>,
      <<8088, <<7976, 921>>>>, <<8089, <<7977, 921>>>>, <<8090, <<7978, 921>>>>,
      <<8091, <<7979, 921>>>>, <<8092, <<7980, 921>>>>, <<8093, <<7981, 921>>>>,
      <<8094, <<7982, 921>>>>, <<8095, <<7983, 921>>>>, <<8096, <<8040, 921>>>>,
      <<8097, <<8041, 921>>>>, <<8098, <<8042, 921>>>>, <<8099, <<8043, 921>>>>,
      <<8100, <<8044, 921>>>>, <<8101, <<8045, 921>>>>, <<8102, <<8046, 921>>>>,
      <<8103, <<8047, 921>>>>, <<8104, <<8040, 921>>>>, <<8105, <<8041, 921>>>>,
      <<8106, <<8042, 921>>>>, <<8107, <<8043, 921>>>>, <<8108, <<8044, 921>>>>,
      <<8109, <<8045, 921>>>>, <<8110, <<8046, 921>>>>, <<8111, <<8047, 921>>>>,
      <<8114, <<8122, 921>>>>, <<8115, <<913, 921>>>>, <<8116, <<902, 921>>>>,
      <<8118, <<913, 834>>>>, <<8119, <<913, 834, 921>>>>, <<8124, <<913, 921>>>>,
      <<8130, <<8138, 921>>>>, <<8131, <<919, 921>>>>, <<8132, <<905, 921>>>>,
      <<8134, <<919, 834>>>>, <<8135, <<919, 834, 921>>>>, <<8140, <<919, 921>>>>,
      <<8146, <<921, 776, 768>>>>, <<8147, <<921, 776, 769>>>>, <<8150, <<921, 834>>>>,
      <<8151, <<921, 776, 834>>>>, <<8162, <<933, 776, 768>>>>, <<8163, <<933, 776, 769>>>>,
      <<8164, <<929, 787>>>>, <<8166, <<933, 834>>>>, <<8167, <<933, 776, 834>>>>,
      <<8178, <<8186, 921>>>>, <<8179, <<937, 921>>>>, <<8180, <<911, 921>>>>,
      <<8182, <<937, 834>>>>, <<8183, <<937, 834, 921>>>>, <<8188, <<937, 921>>>>,
      <<64256, <<70, 70>>>>, <<64257, <<70, 73>>>>, <<64258, <<70, 76>>>>,
      <<64259, <<70, 70, 73>>>>, <<64260, <<70, 70, 76>>>>, <<64261, <<83, 84>>>>,
      <<64262, <<83, 84>>>>, <<64275, <<1348, 1350>>>>, <<64276, <<1348, 1333>>>>,
      <<64277, <<1348, 1339>>>>, <<64278, <<1358, 1350>>>>, <<64279, <<1348, 1341>>>>>>

\* str.lower() of one character, as UpperRuns and UpperSpecial
LowerRuns ==
    <<
      <<65, 90, 1, 32>>, <<192, 214, 1, 32>>, <<216, 222, 1, 32>>, <<256, 302, 2, 1>>,
      <<306, 310, 2, 1>>, <<313, 327, 2, 1>>, <<330, 374, 2, 1>>, <<376, 376, 1, -121>>,
      <<377, 381, 2, 1>>, <<385, 385, 1, 210>>, <<386, 388, 2, 1>>, <<390, 390, 1, 206>>,
      <<391, 391, 1, 1>>, <<393, 394, 1, 205>>, <<395, 395, 1, 1>>, <<398, 398, 1, 79>>,
      <<399, 399, 1, 202>>, <<400, 400, 1, 203>>, <<401, 401, 1, 1>>, <<403, 403, 1, 205>>,
      <<404, 404, 1, 207>>, <<406, 406, 1, 211>>, <<407, 407, 1, 209>>, <<408, 408, 1, 1>>,
      <<412, 412, 1, 211>>, <<413, 413, 1, 213>>, <<415, 415, 1, 214>>, <<416, 420, 2, 1>>,
      <<422, 422, 1, 218>>, <<423, 423, 1, 1>>, <<425, 425, 1, 218>>, <<428, 428, 1, 1>>,
      <<430, 430, 1, 218>>, <<431, 431, 1, 1>>, <<433, 434, 1, 217>>, <<435, 437, 2, 1>>,
      <<439, 439, 1, 219>>, <<440, 440, 1, 1>>, <<444, 444, 1, 1>>, <<452, 452, 1, 2>>,
      <<453, 453, 1, 1>>, <<455, 455, 1, 2>>, <<456, 456, 1, 1>>, <<458, 458, 1, 2>>,
      <<459, 475, 2, 1>>, <<478, 494, 2, 1>>, <<497, 497, 1, 2>>, <<498, 500, 2, 1>>,
      <<502, 502, 1, -97>>, <<503, 503, 1, -56>>, <<504, 542, 2, 1>>, <<544, 544, 1, -130>>,
      <<546, 562, 2, 1>>, <<570, 570, 1, 10795>>, <<571, 571, 1, 1>>, <<573, 573, 1, -163>>,
      <<574, 574, 1, 10792>>, <<577, 577, 1, 1>>, <<579, 579, 1, -195>>, <<580, 580, 1, 69>>,
      <<581, 581, 1, 71>>, <<582, 590, 2, 1>>, <<880, 882, 2, 1>>, <<886, 886, 1, 1>>,
      <<895, 895, 1, 116>>, <<902, 902, 1, 38>>, <<904, 906, 1, 37>>, <<908, 908, 1, 64>>,
      <<910, 911, 1, 63>>, <<913, 929, 1, 32>>, <<931, 939, 1, 32>>, <<975, 975, 1, 8>>,
      <<984, 1006, 2, 1>>, <<1012, 1012, 1, -60>>, <<1015, 1015, 1, 1>>, <<1017, 1017, 1, -7>>,
      <<1018, 1018, 1, 1>>, <<1021, 1023, 1, -130>>, <<1024, 1039, 1, 80>>,
      <<1040, 1071, 1, 32>>, <<1120, 1152, 2, 1>>, <<1162, 1214, 2, 1>>, <<1216, 1216, 1, 15>>,
      <<1217, 1229, 2, 1>>, <<1232, 1326, 2, 1>>, <<1329, 1366, 1, 48>>,
      <<4256, 4293, 1, 7264>>, <<4295, 4295, 1, 7264>>, <<4301, 4301, 1, 7264>>,
      <<5024, 5103, 1, 38864>>, <<5104, 5109, 1, 8>>, <<7312, 7354, 1, -3008>>,
      <<7357, 7359, 1, -3008>>, <<7680, 7828, 2, 1>>, <<7838, 7838, 1, -7615>>,
      <<7840, 7934, 2, 1>>, <<7944, 7951, 1, -8>>, <<7960, 7965, 1, -8>>, <<7976, 7983, 1, -8>>,
      <<7992, 7999, 1, -8>>, <<8008, 8013, 1, -8>>, <<8025, 8031, 2, -8>>,
      <<8040, 8047, 1, -8>>, <<8072, 8079, 1, -8>>, <<8088, 8095, 1, -8>>,
      <<8104, 8111, 1, -8>>, <<8120, 8121, 1, -8>>, <<8122, 8123, 1, -74>>,
      <<8124, 8124, 1, -9>>, <<8136, 8139, 1, -86>>, <<8140, 8140, 1, -9>>,
      <<8152, 8153, 1, -8>>, <<8154, 8155, 1, -100>>, <<8168, 8169, 1, -8>>,
      <<8170, 8171, 1, -112>>, <<8172, 8172, 1, -7>>, <<8184, 8185, 1, -128>>,
      <<8186, 8187, 1, -126>>, <<8188, 8188, 1, -9>>, <<8486, 8486, 1, -7517>>,
      <<8490, 8490, 1, -8383>>, <<8491, 8491, 1, -8262>>, <<8498, 8498, 1, 28>>,
      <<8544, 8559, 1, 16>>, <<8579, 8579, 1, 1>>, <<9398, 9423, 1, 26>>,
      <<11264, 11311, 1, 48>>, <<11360, 11360, 1, 1>>, <<11362, 11362, 1, -10743>>,
      <<11363, 11363, 1, -3814>>, <<11364, 11364, 1, -10727>>, <<11367, 11371, 2, 1>>,
      <<11373, 11373, 1, -10780>>, <<11374, 11374, 1, -10749>>, <<11375, 11375, 1, -10783>>,
      <<11376, 11376, 1, -10782>>, <<11378, 11378, 1, 1>>, <<11381, 11381, 1, 1>>,
      <<11390, 11391, 1, -10815>>, <<11392, 11490, 2, 1>>, <<11499, 11501, 2, 1>>,
      <<11506, 11506, 1, 1>>, <<42560, 42604, 2, 1>>, <<42624, 42650, 2, 1>>,
      <<42786, 42798, 2, 1>>, <<42802, 42862, 2, 1>>, <<42873, 42875, 2, 1>>,
      <<42877, 42877, 1, -35332>>, <<42878, 42886, 2, 1>>, <<42891, 42891, 1, 1>>,
      <<42893, 42893, 1, -42280>>, <<42896, 42898, 2, 1>>, <<42902, 42920, 2, 1>>,
      <<42922, 42922, 1, -42308>>, <<42923, 42923, 1, -42319>>, <<42924, 42924, 1, -42315>>,
      <<42925, 42925, 1, -42305>>, <<42926, 42926, 1, -42308>>, <<42928, 42928, 1, -42258>>,
      <<42929, 42929, 1, -42282>>, <<42930, 42930, 1, -42261>>, <<42931, 42931, 1, 928>>,
      <<42932, 42946, 2, 1>>, <<42948, 42948, 1, -48>>, <<42949, 42949, 1, -42307>>,
      <<42950, 42950, 1, -35384>>, <<42951, 42953, 2, 1>>, <<42960, 42960, 1, 1>>,
      <<42966, 42968, 2, 1>>, <<42997, 42997, 1, 1>>, <<65313, 65338, 1, 32>>,
      <<66560, 66599, 1, 40>>, <<66736, 66771, 1, 40>>, <<66928, 66938, 1, 39>>,
      <<66940, 66954, 1, 39>>, <<66956, 66962, 1, 39>>, <<66964, 66965, 1, 39>>,
      <<68736, 68786, 1, 64>>, <<71840, 71871, 1, 32>>, <<93760, 93791, 1, 32>>,
      <<125184, 125217, 1, 34>>>>

LowerSpecial ==
    <<
      <<304, <<105, 775>>>>>>

\* the cased characters that are not case-ignorable, and the case-ignorable
\* ones: the context in which str.lower() writes a final sigma
CasedRanges ==
    <<
      <<65, 90>>, <<97, 122>>, <<170, 170>>, <<181, 181>>, <<186, 186>>, <<192, 214>>,
      <<216, 246>>, <<248, 442>>, <<444, 447>>, <<452, 659>>, <<661, 687>>, <<880, 883>>,
      <<886, 887>>, <<891, 893>>, <<895, 895>>, <<902, 902>>, <<904, 906>>, <<908, 908>>,
      <<910, 929>>, <<931, 1013>>, <<1015, 1153>>, <<1162, 1327>>, <<1329, 1366>>,
      <<1376, 1416>>, <<4256, 4293>>, <<4295, 4295>>, <<4301, 4301>>, <<4304, 4346>>,
      <<4349, 4351>>, <<5024, 5109>>, <<5112, 5117>>, <<7296, 7304>>, <<7312, 7354>>,
      <<7357, 7359>>, <<7424, 7467>>, <<7531, 7543>>, <<7545, 7578>>, <<7680, 7957>>,
      <<7960, 7965>>, <<7968, 8005>>, <<8008, 8013>>, <<8016, 8023>>, <<8025, 8025>>,
      <<8027, 8027>>, <<8029, 8029>>, <<8031, 8061>>, <<8064, 8116>>, <<8118, 8124>>,
      <<8126, 8126>>, <<8130, 8132>>, <<8134, 8140>>, <<8144, 8147>>, <<8150, 8155>>,
      <<8160, 8172>>, <<8178, 8180>>, <<8182, 8188>>, <<8450, 8450>>, <<8455, 8455>>,
      <<8458, 8467>>, <<8469, 8469>>, <<8473, 8477>>, <<8484, 8484>>, <<8486, 8486>>,
      <<8488, 8488>>, <<8490, 8493>>, <<8495, 8500>>, <<8505, 8505>>, <<8508, 8511>>,
      <<8517, 8521>>, <<8526, 8526>>, <<8544, 8575>>, <<8579, 8580>>, <<9398, 9449>>,
      <<11264, 11387>>, <<11390, 11492>>, <<11499, 11502>>, <<11506, 11507>>, <<11520, 11557>>,
      <<11559, 11559>>, <<11565, 11565>>, <<42560, 42605>>, <<42624, 42651>>, <<42786, 42863>>,
      <<42865, 42887>>, <<42891, 42894>>, <<42896, 42954>>, <<42960, 42961>>, <<42963, 42963>>,
      <<42965, 42969>>, <<42997, 42998>>, <<43002, 43002>>, <<43824, 43866>>, <<43872, 43880>>,
      <<43888, 43967>>, <<64256, 64262>>, <<64275, 64279>>, <<65313, 65338>>, <<65345, 65370>>,
      <<66560, 66639>>, <<66736, 66771>>, <<66776, 66811>>, <<66928, 66938>>, <<66940, 66954>>,
      <<66956, 66962>>, <<66964, 66965>>, <<66967, 66977>>, <<66979, 66993>>, <<66995, 67001>>,
      <<67003, 67004>>, <<68736, 68786>>, <<68800, 68850>>, <<71840, 71903>>, <<93760, 93823>>,
      <<119808, 119892>>, <<119894, 119964>>, <<119966, 119967>>, <<119970, 119970>>,
      <<119973, 119974>>, <<119977, 119980>>, <<119982, 119993>>, <<119995, 119995>>,
      <<119997, 120003>>, <<120005, 120069>>, <<120071, 120074>>, <<120077, 120084>>,
      <<120086, 120092>>, <<120094, 120121>>, <<120123, 120126>>, <<120128, 120132>>,
      <<120134, 120134>>, <<120138, 120144>>, <<120146, 120485>>, <<120488, 120512>>,
      <<120514, 120538>>, <<120540, 120570>>, <<120572, 120596>>, <<120598, 120628>>,
      <<120630, 120654>>, <<120656, 120686>>, <<120688, 120712>>, <<120714, 120744>>,
      <<120746, 120770>>, <<120772, 120779>>, <<122624, 122633>>, <<122635, 122654>>,
      <<125184, 125251>>, <<127280, 127305>>, <<127312, 127337>>, <<127344, 127369>>>>

CaseIgnorableRanges ==
    <<
      <<39, 39>>, <<46, 46>>, <<58, 58>>, <<94, 94>>, <<96, 96>>, <<168, 168>>, <<173, 173>>,
      <<175, 175>>, <<180, 180>>, <<183, 184>>, <<688, 879>>, <<884, 885>>, <<890, 890>>,
      <<900, 901>>, <<903, 903>>, <<1155, 1161>>, <<1369, 1369>>, <<1375, 1375>>,
      <<1425, 1469>>, <<1471, 1471>>, <<1473, 1474>>, <<1476, 1477>>, <<1479, 1479>>,
      <<1524, 1524>>, <<1536, 1541>>, <<1552, 1562>>, <<1564, 1564>>, <<1600, 1600>>,
      <<1611, 1631>>, <<1648, 1648>>, <<1750, 1757>>, <<1759, 1768>>, <<1770, 1773>>,
      <<1807, 1807>>, <<1809, 1809>>, <<1840, 1866>>, <<1958, 1968>>, <<2027, 2037>>,
      <<2042, 2042>>, <<2045, 2045>>, <<2070, 2093>>, <<2137, 2139>>, <<2184, 2184>>,
      <<2192, 2193>>, <<2200, 2207>>, <<2249, 2306>>, <<2362, 2362>>, <<2364, 2364>>,
      <<2369, 2376>>, <<2381, 2381>>, <<2385, 2391>>, <<2402, 2403>>, <<2417, 2417>>,
      <<2433, 2433>>, <<2492, 2492>>, <<2497, 2500>>, <<2509, 2509>>, <<2530, 2531>>,
      <<2558, 2558>>, <<2561, 2562>>, <<2620, 2620>>, <<2625, 2626>>, <<2631, 2632>>,
      <<2635, 2637>>, <<2641, 2641>>, <<2672, 2673>>, <<2677, 2677>>, <<2689, 2690>>,
      <<2748, 2748>>, <<2753, 2757>>, <<2759, 2760>>, <<2765, 2765>>, <<2786, 2787>>,
      <<2810, 2815>>, <<2817, 2817>>, <<2876, 2876>>, <<2879, 2879>>, <<2881, 2884>>,
      <<2893, 2893>>, <<2901, 2902>>, <<2914, 2915>>, <<2946, 2946>>, <<3008, 3008>>,
      <<3021, 3021>>, <<3072, 3072>>, <<3076, 3076>>, <<3132, 3132>>, <<3134, 3136>>,
      <<3142, 3144>>, <<3146, 3149>>, <<3157, 3158>>, <<3170, 3171>>, <<3201, 3201>>,
      <<3260, 3260>>, <<3263, 3263>>, <<3270, 3270>>, <<3276, 3277>>, <<3298, 3299>>,
      <<3328, 3329>>, <<3387, 3388>>, <<3393, 3396>>, <<3405, 3405>>, <<3426, 3427>>,
      <<3457, 3457>>, <<3530, 3530>>, <<3538, 3540>>, <<3542, 3542>>, <<3633, 3633>>,
      <<3636, 3642>>, <<3654, 3662>>, <<3761, 3761>>, <<3764, 3772>>, <<3782, 3782>>,
      <<3784, 3789>>, <<3864, 3865>>, <<3893, 3893>>, <<3895, 3895>>, <<3897, 3897>>,
      <<3953, 3966>>, <<3968, 3972>>, <<3974, 3975>>, <<3981, 3991>>, <<3993, 4028>>,
      <<4038, 4038>>, <<4141, 4144>>, <<4146, 4151>>, <<4153, 4154>>, <<4157, 4158>>,
      <<4184, 4185>>, <<4190, 4192>>, <<4209, 4212>>, <<4226, 4226>>, <<4229, 4230>>,
      <<4237, 4237>>, <<4253, 4253>>, <<4348, 4348>>, <<4957, 4959>>, <<5906, 5908>>,
      <<5938, 5939>>, <<5970, 5971>>, <<6002, 6003>>, <<6068, 6069>>, <<6071, 6077>>,
      <<6086, 6086>>, <<6089, 6099>>, <<6103, 6103>>, <<6109, 6109>>, <<6155, 6159>>,
      <<6211, 6211>>, <<6277, 6278>>, <<6313, 6313>>, <<6432, 6434>>, <<6439, 6440>>,
      <<6450, 6450>>, <<6457, 6459>>, <<6679, 6680>>, <<6683, 6683>>, <<6742, 6742>>,
      <<6744, 6750>>, <<6752, 6752>>, <<6754, 6754>>, <<6757, 6764>>, <<6771, 6780>>,
      <<6783, 6783>>, <<6823, 6823>>, <<6832, 6862>>, <<6912, 6915>>, <<6964, 6964>>,
      <<6966, 6970>>, <<6972, 6972>>, <<6978, 6978>>, <<7019, 7027>>, <<7040, 7041>>,
      <<7074, 7077>>, <<7080, 7081>>, <<7083, 7085>>, <<7142, 7142>>, <<7144, 7145>>,
      <<7149, 7149>>, <<7151, 7153>>, <<7212, 7219>>, <<7222, 7223>>, <<7288, 7293>>,
      <<7376, 7378>>, <<7380, 7392>>, <<7394, 7400>>, <<7405, 7405>>, <<7412, 7412>>,
      <<7416, 7417>>, <<7468, 7530>>, <<7544, 7544>>, <<7579, 7679>>, <<8125, 8125>>,
      <<8127, 8129>>, <<8141, 8143>>, <<8157, 8159>>, <<8173, 8175>>, <<8189, 8190>>,
      <<8203, 8207>>, <<8216, 8217>>, <<8228, 8228>>, <<8231, 8231>>, <<8234, 8238>>,
      <<8288, 8292>>, <<8294, 8303>>, <<8305, 8305>>, <<8319, 8319>>, <<8336, 8348>>,
      <<8400, 8432>>, <<11388, 11389>>, <<11503, 11505>>, <<11631, 11631>>, <<11647, 11647>>,
      <<11744, 11775>>, <<11823, 11823>>, <<12293, 12293>>, <<12330, 12333>>, <<12337, 12341>>,
      <<12347, 12347>>, <<12441, 12446>>, <<12540, 12542>>, <<40981, 40981>>, <<42232, 42237>>,
      <<42508, 42508>>, <<42607, 42610>>, <<42612, 42621>>, <<42623, 42623>>, <<42652, 42655>>,
      <<42736, 42737>>, <<42752, 42785>>, <<42864, 42864>>, <<42888, 42890>>, <<42994, 42996>>,
      <<43000, 43001>>, <<43010, 43010>>, <<43014, 43014>>, <<43019, 43019>>, <<43045, 43046>>,
      <<43052, 43052>>, <<43204, 43205>>, <<43232, 43249>>, <<43263, 43263>>, <<43302, 43309>>,
      <<43335, 43345>>, <<43392, 43394>>, <<43443, 43443>>, <<43446, 43449>>, <<43452, 43453>>,
      <<43471, 43471>>, <<43493, 43494>>, <<43561, 43566>>, <<43569, 43570>>, <<43573, 43574>>,
      <<43587, 43587>>, <<43596, 43596>>, <<43632, 43632>>, <<43644, 43644>>, <<43696, 43696>>,
      <<43698, 43700>>, <<43703, 43704>>, <<43710, 43711>>, <<43713, 43713>>, <<43741, 43741>>,
      <<43756, 43757>>, <<43763, 43764>>, <<43766, 43766>>, <<43867, 43871>>, <<43881, 43883>>,
      <<44005, 44005>>, <<44008, 44008>>, <<44013, 44013>>, <<64286, 64286>>, <<64434, 64450>>,
      <<65024, 65039>>, <<65043, 65043>>, <<65056, 65071>>, <<65106, 65106>>, <<65109, 65109>>,
      <<65279, 65279>>, <<65287, 65287>>, <<65294, 65294>>, <<65306, 65306>>, <<65342, 65342>>,
      <<65344, 65344>>, <<65392, 65392>>, <<65438, 65439>>, <<65507, 65507>>, <<65529, 65531>>,
      <<66045, 66045>>, <<66272, 66272>>, <<66422, 66426>>, <<67456, 67461>>, <<67463, 67504>>,
      <<67506, 67514>>, <<68097, 68099>>, <<68101, 68102>>, <<68108, 68111>>, <<68152, 68154>>,
      <<68159, 68159>>, <<68325, 68326>>, <<68900, 68903>>, <<69291, 69292>>, <<69446, 69456>>,
      <<69506, 69509>>, <<69633, 69633>>, <<69688, 69702>>, <<69744, 69744>>, <<69747, 69748>>,
      <<69759, 69761>>, <<69811, 69814>>, <<69817, 69818>>, <<69821, 69821>>, <<69826, 69826>>,
      <<69837, 69837>>, <<69888, 69890>>, <<69927, 69931>>, <<69933, 69940>>, <<70003, 70003>>,
      <<70016, 70017>>, <<70070, 70078>>, <<70089, 70092>>, <<70095, 70095>>, <<70191, 70193>>,
      <<70196, 70196>>, <<70198, 70199>>, <<70206, 70206>>, <<70367, 70367>>, <<70371, 70378>>,
      <<70400, 70401>>, <<70459, 70460>>, <<70464, 70464>>, <<70502, 70508>>, <<70512, 70516>>,
      <<70712, 70719>>, <<70722, 70724>>, <<70726, 70726>>, <<70750, 70750>>, <<70835, 70840>>,
      <<70842, 70842>>, <<70847, 70848>>, <<70850, 70851>>, <<71090, 71093>>, <<71100, 71101>>,
      <<71103, 71104>>, <<71132, 71133>>, <<71219, 71226>>, <<71229, 71229>>, <<71231, 71232>>,
      <<71339, 71339>>, <<71341, 71341>>, <<71344, 71349>>, <<71351, 71351>>, <<71453, 71455>>,
      <<71458, 71461>>, <<71463, 71467>>, <<71727, 71735>>, <<71737, 71738>>, <<71995, 71996>>,
      <<71998, 71998>>, <<72003, 72003>>, <<72148, 72151>>, <<72154, 72155>>, <<72160, 72160>>,
      <<72193, 72202>>, <<72243, 72248>>, <<72251, 72254>>, <<72263, 72263>>, <<72273, 72278>>,
      <<72281, 72283>>, <<72330, 72342>>, <<72344, 72345>>, <<72752, 72758>>, <<72760, 72765>>,
      <<72767, 72767>>, <<72850, 72871>>, <<72874, 72880>>, <<72882, 72883>>, <<72885, 72886>>,
      <<73009, 73014>>, <<73018, 73018>>, <<73020, 73021>>, <<73023, 73029>>, <<73031, 73031>>,
      <<73104, 73105>>, <<73109, 73109>>, <<73111, 73111>>, <<73459, 73460>>, <<78896, 78904>>,
      <<92912, 92916>>, <<92976, 92982>>, <<92992, 92995>>, <<94031, 94031>>, <<94095, 94111>>,
      <<94176, 94177>>, <<94179, 94180>>, <<110576, 110579>>, <<110581, 110587>>,
      <<110589, 110590>>, <<113821, 113822>>, <<113824, 113827>>, <<118528, 118573>>,
      <<118576, 118598>>, <<119143, 119145>>, <<119155, 119170>>, <<119173, 119179>>,
      <<119210, 119213>>, <<119362, 119364>>, <<121344, 121398>>, <<121403, 121452>>,
      <<121461, 121461>>, <<121476, 121476>>, <<121499, 121503>>, <<121505, 121519>>,
      <<122880, 122886>>, <<122888, 122904>>, <<122907, 122913>>, <<122915, 122916>>,
      <<122918, 122922>>, <<123184, 123197>>, <<123566, 123566>>, <<123628, 123631>>,
      <<125136, 125142>>, <<125252, 125259>>, <<127995, 127999>>, <<917505, 917505>>,
      <<917536, 917631>>, <<917760, 917999>>>>

\* re's _EXTRA_CASES: <<lower-case code point, the other lower-case code
\* points that have the same upper case>>
ExtraCases ==
    <<
      <<105, {305}>>, <<115, {383}>>, <<181, {956}>>, <<305, {105}>>, <<383, {115}>>,
      <<837, {953, 8126}>>, <<912, {8147}>>, <<944, {8163}>>, <<946, {976}>>, <<949, {1013}>>,
      <<952, {977}>>, <<953, {837, 8126}>>, <<954, {1008}>>, <<956, {181}>>, <<960, {982}>>,
      <<961, {1009}>>, <<962, {963}>>, <<963, {962}>>, <<966, {981}>>, <<976, {946}>>,
      <<977, {952}>>, <<981, {966}>>, <<982, {960}>>, <<1008, {954}>>, <<1009, {961}>>,
      <<1013, {949}>>, <<1074, {7296}>>, <<1076, {7297}>>, <<1086, {7298}>>, <<1089, {7299}>>,
      <<1090, {7300, 7301}>>, <<1098, {7302}>>, <<1123, {7303}>>, <<7296, {1074}>>,
      <<7297, {1076}>>, <<7298, {1086}>>, <<7299, {1089}>>, <<7300, {1090, 7301}>>,
      <<7301, {1090, 7300}>>, <<7302, {1098}>>, <<7303, {1123}>>, <<7304, {42571}>>,
      <<7777, {7835}>>, <<7835, {7777}>>, <<8126, {837, 953}>>, <<8147, {912}>>,
      <<8163, {944}>>, <<42571, {7304}>>, <<64261, {64262}>>, <<64262, {64261}>>>>

\* the code points one character is mapped to by the runs and the specials
CaseMapped(cp, runs, special) ==
    LET several == {k \in 1..Len(special) : special[k][1] = cp}
        one == {k \in 1..Len(runs) : /\ runs[k][1] <= cp
                                     /\ cp <= runs[k][2]
                                     /\ (cp - runs[k][1]) % runs[k][3] = 0}
    IN  IF several # {} THEN special[CHOOSE k \in several : TRUE][2]
        ELSE IF one # {} THEN <<cp + runs[CHOOSE k \in one : TRUE][4]>>
        ELSE <<cp>>

\* str.upper() of a text, halving it
RECURSIVE Upper(_)
Upper(text) ==
    IF Len(text) = 0 THEN <<>>
    ELSE IF Len(text) = 1 THEN CaseMapped(text[1], UpperRuns, UpperSpecial)
    ELSE Upper(SubSeq(text, 1, Len(text) \div 2))
           \o Upper(SubSeq(text, (Len(text) \div 2) + 1, Len(text)))

\* whether the capital sigma at index i of the text ends a word: the nearest
\* character before it that is not case-ignorable is cased, and the nearest
\* one after it is not
FinalSigma(text, i) ==
    LET before == {j \in 1..(i - 1) : ~InRanges(text[j], CaseIgnorableRanges)}
        after == {j \in (i + 1)..Len(text) : ~InRanges(text[j], CaseIgnorableRanges)}
    IN  /\ before # {}
        /\ InRanges(text[SetMax(before)], CasedRanges)
        /\ after # {} => ~InRanges(text[SetMin(after)], CasedRanges)

\* what str.lower() makes of the character at index i
LowerAt(text, i) ==
    IF text[i] = 931 THEN (IF FinalSigma(text, i) THEN <<962>> ELSE <<963>>)
    ELSE CaseMapped(text[i], LowerRuns, LowerSpecial)

\* str.lower() of the characters first..last of a text, halving the span
RECURSIVE LowerSpan(_, _, _)
LowerSpan(text, first, last) ==
    IF first > last THEN <<>>
    ELSE IF first = last THEN LowerAt(text, first)
    ELSE LowerSpan(text, first, (first + last) \div 2)
           \o LowerSpan(text, ((first + last) \div 2) + 1, last)

\* str.lower() of a text
Lower(text) == LowerSpan(text, 1, Len(text))

\* the code points \d matches
DigitPoints == PointsIn(DigitRanges)

\* the code points \w matches
WordPoints == PointsIn(WordRanges)

\* the characters the program's code names
LineFeed == Ord("\n")

\* the indices of s that hold a character str.strip() keeps
InkAt(s) == {i \in 1..Len(s) : s[i] \notin SpacePoints}

\* str.lstrip()
LStrip(s) == IF InkAt(s) = {} THEN <<>> ELSE SubSeq(s, SetMin(InkAt(s)), Len(s))

\* str.rstrip()
RStrip(s) == IF InkAt(s) = {} THEN <<>> ELSE SubSeq(s, 1, SetMax(InkAt(s)))

\* str.strip()
Strip(s) == LStrip(RStrip(s))

\* the index of the k-th character c of s; 0 for k = 0, Len(s) + 1 past the last
SepAt(s, c, k) ==
    IF k = 0 THEN 0
    ELSE IF k > Cardinality({i \in 1..Len(s) : s[i] = c}) THEN Len(s) + 1
    ELSE Kth({i \in 1..Len(s) : s[i] = c}, k)

\* str.split(c) for a single character c: the pieces between its
\* occurrences, always at least one
Split(s, c) ==
    SubSeq([k \in 1..(Cardinality({i \in 1..Len(s) : s[i] = c}) + 1) |->
               SubSeq(s, SepAt(s, c, k - 1) + 1, SepAt(s, c, k) - 1)],
           1, Cardinality({i \in 1..Len(s) : s[i] = c}) + 1)

\* str.split('\n')
SplitLines(s) == Split(s, LineFeed)

\* the index at which the run of kept characters that begins at i ends
WordEnd(s, i) == SetMin({j \in i..Len(s) : (j + 1) \notin InkAt(s)})

\* the words that begin at the indices `starts`, in order
WordsAt(s, starts) ==
    SubSeq([k \in 1..Cardinality(starts) |->
               SubSeq(s, Kth(starts, k), WordEnd(s, Kth(starts, k)))],
           1, Cardinality(starts))

\* str.split(): the maximal runs of characters that are not whitespace
SplitWords(s) == WordsAt(s, {i \in InkAt(s) : (i - 1) \notin InkAt(s)})

\* sep.join(parts)
RECURSIVE Join(_, _)
Join(sep, parts) ==
    IF parts = <<>> THEN <<>>
    ELSE IF Len(parts) = 1 THEN parts[1]
    ELSE parts[1] \o sep \o Join(sep, Tail(parts))

\* s[lo:hi] for 0 <= lo and 0 <= hi: a slice stops at the end of s
Slice(s, lo, hi) == SubSeq(s, lo + 1, IF hi < Len(s) THEN hi ELSE Len(s))

\* the offsets (0-based) at or after `start` at which sub stands in s
FoundAt(s, sub, start) ==
    {q \in start..(Len(s) - Len(sub)) : SubSeq(s, q + 1, q + Len(sub)) = sub}

\* the least of the offsets `at`, -1 when there is none
FirstOf(at) == IF at = {} THEN -1 ELSE SetMin(at)

\* s.find(sub, start)
Find(s, sub, start) == FirstOf(FoundAt(s, sub, start))

\* sub in s
Contains(s, sub) == FoundAt(s, sub, 0) # {}

\* [F(x) for x in xs]
Each(xs, F(_)) == SubSeq([k \in 1..Len(xs) |-> F(xs[k])], 1, Len(xs))

\* the concatenation of the sequences in xss
RECURSIVE Flatten(_)
Flatten(xss) == IF xss = <<>> THEN <<>> ELSE Head(xss) \o Flatten(Tail(xss))

\* s.startswith(prefix)
StartsWith(s, prefix) ==
    Len(s) >= Len(prefix) /\ SubSeq(s, 1, Len(prefix)) = prefix

\* str.count(sub): non-overlapping occurrences, scanning left to right
RECURSIVE CountFrom(_, _, _)
\* one more for the occurrence at offset q (-1: none), and on behind it
CountOn(s, sub, q) == IF q = -1 THEN 0 ELSE 1 + CountFrom(s, sub, q + Len(sub))

CountFrom(s, sub, start) == CountOn(s, sub, Find(s, sub, start))

Count(s, sub) == CountFrom(s, sub, 0)

(***************************************************************************)
(* Python's re module.  A compiled pattern is the tree re's parser builds: *)
(* a sequence of items, each a literal string, a character set, an         *)
(* anchor, an alternation of sequences, a group or a repetition (max -1:   *)
(* unbounded).  The matcher returns the states in which an item can end,   *)
(* in the order backtracking tries them, so the first one is where re      *)
(* stops.  A state is the number p of characters consumed and the spans g  *)
(* of the capturing groups (<<start, end>>, <<-1, -1>> while unset).       *)
(* Under re.IGNORECASE re compares the lower case of a character of the    *)
(* subject (_sre.unicode_tolower) with the lower case of a literal or of a *)
(* set member and with the characters _EXTRA_CASES adds to it (`low`); a   *)
(* character class holds a character exactly when it holds its lower case. *)
(***************************************************************************)
\* the code points the runs and the specials of str.lower() cover
LowerCovered ==
    UNION {LowerRuns[k][1]..LowerRuns[k][2] : k \in 1..Len(LowerRuns)}
      \cup {LowerSpecial[k][1] : k \in 1..Len(LowerSpecial)}

\* _sre.unicode_tolower(cp): the first code point of the lower case
SimpleLower(cp) ==
    IF cp \in LowerCovered THEN CaseMapped(cp, LowerRuns, LowerSpecial)[1] ELSE cp

\* the lower-case code points re takes for the pattern character c
FoldOf(lo) ==
    {lo} \cup UNION {ExtraCases[k][2] : k \in {j \in 1..Len(ExtraCases) : ExtraCases[j][1] = lo}}

Fold(c) == FoldOf(SimpleLower(c))

\* the text with each character in lower case
ReLower(s) == SubSeq([i \in 1..Len(s) |-> SimpleLower(s[i])], 1, Len(s))

\* a literal, of the text `points`
StrOf(points) ==
    [t |-> "str", s |-> points,
     low |-> SubSeq([k \in 1..Len(points) |-> Fold(points[k])], 1, Len(points))]

\* a literal, written as a string
Str(text) == StrOf(Points(text))

\* a character set: the code points cs it lists and the classes cats it
\* names ("s", "w", "d" for \s, \w, \d; "S", "W", "D" for their complements)
Set(cs, cats) ==
    [t |-> "set", cs |-> cs, cats |-> cats, low |-> UNION {Fold(c) : c \in cs}, neg |-> FALSE]

NotSet(cs, cats) ==
    [t |-> "set", cs |-> cs, cats |-> cats, low |-> UNION {Fold(c) : c \in cs}, neg |-> TRUE]

Rep(lo, hi, greedy, seq) ==
    [t |-> "rep", min |-> lo, max |-> hi, greedy |-> greedy, seq |-> seq]

Grp(k, seq) == [t |-> "grp", k |-> k, seq |-> seq]

Alt(alts) == [t |-> "alt", alts |-> alts]

AtBegin == [t |-> "at", where |-> "begin"]

AtEnd == [t |-> "at", where |-> "end"]

AtBoundary == [t |-> "at", where |-> "boundary"]

Regex(groups, seq) == [groups |-> groups, seq |-> seq]

\* whether the class named cat holds the code point
InCategory(c, cat) ==
    CASE cat = "s" -> c \in SpacePoints
      [] cat = "S" -> c \notin SpacePoints
      [] cat = "w" -> c \in WordPoints
      [] cat = "W" -> c \notin WordPoints
      [] cat = "d" -> c \in DigitPoints
      [] cat = "D" -> c \notin DigitPoints

\* the subject as the matcher reads it (ic: re.IGNORECASE)
ReSubject(s, ic) == IF ic THEN ReLower(s) ELSE s

\* whether character c of the subject is matched by the set item n
ReCharIn(c, n, ic) ==
    ((IF ic THEN c \in n.low ELSE c \in n.cs) \/ \E cat \in n.cats : InCategory(c, cat)) # n.neg

\* whether the literal item n stands in the subject right after offset p
ReStrAt(n, s, p, ic) ==
    /\ p + Len(n.s) <= Len(s)
    /\ IF ic THEN \A k \in 1..Len(n.s) : s[p + k] \in n.low[k]
       ELSE SubSeq(s, p + 1, p + Len(n.s)) = n.s

ReIsWordAt(s, i) == i >= 1 /\ i <= Len(s) /\ s[i] \in WordPoints

\* the number of consecutive characters after offset p that set item n takes
ReRunLength(n, s, p, ic) ==
    LET bad == {q \in (p + 1)..Len(s) : ~ReCharIn(s[q], n, ic)}
    IN  IF bad = {} THEN Len(s) - p ELSE SetMin(bad) - 1 - p

\* the lists of states one after the other, keeping for each position only
\* the state that comes first
ReFlatten(all) ==
    LET lists == SelectSeq(all, LAMBDA l : l # <<>>) IN
    IF lists = <<>> THEN <<>>
    ELSE IF Len(lists) = 1 THEN lists[1]
    ELSE
    LET idx    == UNION {{<<j, i>> : i \in 1..Len(lists[j])} : j \in 1..Len(lists)}
        Before(h, k) == h[1] < k[1] \/ (h[1] = k[1] /\ h[2] < k[2])
        first  == {h \in idx : \A k \in idx :
                      lists[k[1]][k[2]].p = lists[h[1]][h[2]].p => ~Before(k, h)}
    IN  [r \in 1..Cardinality(first) |->
            LET h == CHOOSE h \in first :
                        Cardinality({k \in first : Before(k, h)}) = r - 1
            IN  lists[h[1]][h[2]]]

RECURSIVE ReSeqEnds(_, _, _, _, _, _)
RECURSIVE ReItemEnds(_, _, _, _)
RECURSIVE ReRepEnds(_, _, _, _, _)

\* a repetition of one character set: every count the run allows
ReSetRepEnds(n, s, st, ic) ==
    LET run == ReRunLength(n.seq[1], s, st.p, ic)
        hi  == IF n.max = -1 \/ run < n.max THEN run ELSE n.max
    IN  IF hi < n.min THEN <<>>
        ELSE [k \in 1..(hi - n.min + 1) |->
                [st EXCEPT !.p = IF n.greedy THEN st.p + hi - (k - 1)
                                 ELSE st.p + n.min + (k - 1)]]

\* the repetition n from state st, k iterations done
ReRepEnds(n, s, st, ic, k) ==
    LET stop == IF k >= n.min THEN <<st>> ELSE <<>>
        body == IF n.max = -1 \/ k < n.max
                THEN ReSeqEnds(n.seq, 1, Len(n.seq), s, <<st>>, ic) ELSE <<>>
        \* an iteration that consumed nothing is not repeated
        adv  == SelectSeq(body, LAMBDA e : e.p # st.p)
        idle == IF k < n.min /\ adv = <<>> /\ body # <<>> THEN <<st>> ELSE <<>>
        more == IF adv = <<>> THEN <<>>
                ELSE ReFlatten([j \in 1..Len(adv) |-> ReRepEnds(n, s, adv[j], ic, k + 1)])
    IN  IF n.greedy THEN ReFlatten(<<more, stop, idle>>)
        ELSE ReFlatten(<<stop, more, idle>>)

ReItemEnds(n, s, st, ic) ==
    CASE n.t = "str" ->
           IF ReStrAt(n, s, st.p, ic) THEN <<[st EXCEPT !.p = st.p + Len(n.s)]>>
           ELSE <<>>
      [] n.t = "set" ->
           IF st.p < Len(s) /\ ReCharIn(s[st.p + 1], n, ic)
           THEN <<[st EXCEPT !.p = st.p + 1]>> ELSE <<>>
      [] n.t = "at" ->
           IF CASE n.where = "begin" -> st.p = 0
                [] n.where = "end" ->
                     st.p = Len(s) \/ (st.p = Len(s) - 1 /\ s[Len(s)] = LineFeed)
                [] n.where = "boundary" ->
                     ReIsWordAt(s, st.p) # ReIsWordAt(s, st.p + 1)
           THEN <<st>> ELSE <<>>
      [] n.t = "alt" ->
           ReFlatten([a \in 1..Len(n.alts) |->
                         ReSeqEnds(n.alts[a], 1, Len(n.alts[a]), s, <<st>>, ic)])
      [] n.t = "grp" ->
           LET r == ReSeqEnds(n.seq, 1, Len(n.seq), s, <<st>>, ic)
           IN  IF n.k = 0 THEN r
               ELSE [j \in 1..Len(r) |->
                       [r[j] EXCEPT !.g = [r[j].g EXCEPT ![n.k] = <<st.p, r[j].p>>]]]
      [] n.t = "rep" ->
           IF Len(n.seq) = 1 /\ n.seq[1].t = "set" THEN ReSetRepEnds(n, s, st, ic)
           ELSE ReRepEnds(n, s, st, ic, 0)

\* the items lo..hi of a sequence, from each of `states` in turn
ReSeqEnds(items, lo, hi, s, states, ic) ==
    IF states = <<>> THEN <<>>
    ELSE IF lo > hi THEN states
    ELSE IF lo = hi
         THEN ReFlatten([j \in 1..Len(states) |-> ReItemEnds(items[lo], s, states[j], ic)])
    ELSE ReSeqEnds(items, ((lo + hi) \div 2) + 1, hi, s,
                   ReSeqEnds(items, lo, (lo + hi) \div 2, s, states, ic), ic)

\* whether a match of item n can begin at offset p of subject s
ReCanStart(n, s, p, ic) ==
    CASE n.t = "str" -> ReStrAt(n, s, p, ic)
      [] n.t = "set" -> p < Len(s) /\ ReCharIn(s[p + 1], n, ic)
      [] OTHER       -> TRUE

\* the match that starts at offset p and ends where the first of `ends` does
ReFirstOf(p, ends) ==
    IF ends = <<>> THEN <<>>
    ELSE <<[start |-> p, end |-> ends[1].p, g |-> ends[1].g]>>

\* the match of compiled pattern re starting exactly at offset p (0-based)
\* of subject s, as <<[start, end, g]>>, or <<>>
ReMatchAt(re, s, p, ic) ==
    IF ~ReCanStart(re.seq[1], s, p, ic) THEN <<>>
    ELSE ReFirstOf(p, ReSeqEnds(re.seq, 1, Len(re.seq), s,
                                <<[p |-> p, g |-> [k \in 1..re.groups |-> <<-1, -1>>]]>>,
                                ic))

\* of the matches found at the offsets lo..hi, the one at the least offset
ReLeftmost(found, lo, hi) ==
    IF \A q \in lo..hi : found[q] = <<>> THEN <<>>
    ELSE found[SetMin({q \in lo..hi : found[q] # <<>>})]

\* the leftmost match in subject s at or after offset p, or <<>>
ReSearchFrom(re, s, p, ic) ==
    ReLeftmost([q \in p..Len(s) |-> ReMatchAt(re, s, q, ic)], p, Len(s))

\* bool(re.search(pattern, text, flags))
ReSearch(re, text, ic) == ReSearchFrom(re, ReSubject(text, ic), 0, ic) # <<>>

(***************************************************************************)
(* DefectClassifier.__init__: the rule catalog and the smell thresholds.   *)
(***************************************************************************)
\* "warning" written as "warn"
RuleAbbreviated(pattern, regex, message, severity) ==
    [pattern |-> pattern, regex |-> regex, message |-> message,
     severity |-> IF severity = "warning" THEN "warn" ELSE severity]

Rule(pattern, regex, message, severity) ==
    [pattern |-> pattern, regex |-> regex, message |-> message, severity |-> severity]

\* each rule's pattern is followed by its compiled form
anti_patterns ==
    [
     python |-> <<
        Rule("except\\s*:",
             Regex(0, <<Str("except"), Rep(0, -1, TRUE, <<Set({}, {"s"})>>), Str(":")>>),
             "Bare except clause catches all exceptions", "error"),
        Rule("eval\\s*\\(",
             Regex(0, <<Str("eval"), Rep(0, -1, TRUE, <<Set({}, {"s"})>>), Str("(")>>),
             "Use of eval() is a security risk", "security"),
        Rule("exec\\s*\\(",
             Regex(0, <<Str("exec"), Rep(0, -1, TRUE, <<Set({}, {"s"})>>), Str("(")>>),
             "Use of exec() is a security risk", "security"),
        Rule("from\\s+\\w+\\s+import\\s+\\*",
             Regex(0, <<Str("from"), Rep(1, -1, TRUE, <<Set({}, {"s"})>>), Rep(1, -1, TRUE,
                 <<Set({}, {"w"})>>), Rep(1, -1, TRUE, <<Set({}, {"s"})>>), Str("import"), Rep(1,
                 -1, TRUE, <<Set({}, {"s"})>>), Str("*")>>),
             "Wildcard import pollutes namespace", "warning"),
        Rule("global\\s+\\w+",
             Regex(0, <<Str("global"), Rep(1, -1, TRUE, <<Set({}, {"s"})>>), Rep(1, -1, TRUE,
                 <<Set({}, {"w"})>>)>>),
             "Global variable usage", "warning"),
        Rule("print\\s*\\(.*\\)\\s*$",
             Regex(0, <<Str("print"), Rep(0, -1, TRUE, <<Set({}, {"s"})>>), Str("("), Rep(0, -1,
                 TRUE, <<NotSet({LineFeed}, {})>>), Str(")"), Rep(0, -1, TRUE, <<Set({}, {"s"})>>),
                 AtEnd>>),
             "Debug print statement", "info"),
        Rule("#\\s*TODO",
             Regex(0, <<Str("#"), Rep(0, -1, TRUE, <<Set({}, {"s"})>>), Str("TODO")>>),
             "TODO comment found", "info"),
        Rule("#\\s*FIXME",
             Regex(0, <<Str("#"), Rep(0, -1, TRUE, <<Set({}, {"s"})>>), Str("FIXME")>>),
             "FIXME comment found", "warning"),
        Rule("#\\s*HACK",
             Regex(0, <<Str("#"), Rep(0, -1, TRUE, <<Set({}, {"s"})>>), Str("HACK")>>),
             "HACK comment found", "warning"),
        Rule("password\\s*=\\s*['\\\"]",
             Regex(0, <<Str("password"), Rep(0, -1, TRUE, <<Set({}, {"s"})>>), Str("="), Rep(0, -1,
                 TRUE, <<Set({}, {"s"})>>), Set(CharSet("'\""), {})>>),
             "Hardcoded password detected", "security"),
        Rule("api[_-]?key\\s*=\\s*['\\\"]",
             Regex(0, <<Str("api"), Rep(0, 1, TRUE, <<Set(CharSet("_-"), {})>>), Str("key"), Rep(0,
                 -1, TRUE, <<Set({}, {"s"})>>), Str("="), Rep(0, -1, TRUE, <<Set({}, {"s"})>>),
                 Set(CharSet("'\""), {})>>),
             "Hardcoded API key detected", "security"),
        Rule("sleep\\s*\\(\\s*\\d+\\s*\\)",
             Regex(0, <<Str("sleep"), Rep(0, -1, TRUE, <<Set({}, {"s"})>>), Str("("), Rep(0, -1,
                 TRUE, <<Set({}, {"s"})>>), Rep(1, -1, TRUE, <<Set({}, {"d"})>>), Rep(0, -1, TRUE,
                 <<Set({}, {"s"})>>), Str(")")>>),
             "Sleep call may indicate polling anti-pattern", "warning"),
        Rule("except\\s+Exception\\s*:",
             Regex(0, <<Str("except"), Rep(1, -1, TRUE, <<Set({}, {"s"})>>), Str("Exception"),
                 Rep(0, -1, TRUE, <<Set({}, {"s"})>>), Str(":")>>),
             "Catching generic Exception", "warning"),
        Rule("\\.format\\(.*\\)\\s*$",
             Regex(0, <<Str(".format("), Rep(0, -1, TRUE, <<NotSet({LineFeed}, {})>>), Str(")"),
                 Rep(0, -1, TRUE, <<Set({}, {"s"})>>), AtEnd>>),
             "Consider using f-strings for formatting", "suggestion"),
        Rule("^\\s*pass\\s*$",
             Regex(0, <<AtBegin, Rep(0, -1, TRUE, <<Set({}, {"s"})>>), Str("pass"), Rep(0, -1,
                 TRUE, <<Set({}, {"s"})>>), AtEnd>>),
             "Empty block with pass", "info"),
        Rule("assert\\s+",
             Regex(0, <<Str("assert"), Rep(1, -1, TRUE, <<Set({}, {"s"})>>)>>),
             "Assert statement (disabled in optimized mode)", "warning"),
        Rule("os\\.system\\s*\\(",
             Regex(0, <<Str("os.system"), Rep(0, -1, TRUE, <<Set({}, {"s"})>>), Str("(")>>),
             "os.system() is vulnerable to command injection", "security")
     >>,
     javascript |-> <<
        Rule("\\bvar\\s+",
             Regex(0, <<AtBoundary, Str("var"), Rep(1, -1, TRUE, <<Set({}, {"s"})>>)>>),
             "Use let/const instead of var", "warning"),
        Rule("eval\\s*\\(",
             Regex(0, <<Str("eval"), Rep(0, -1, TRUE, <<Set({}, {"s"})>>), Str("(")>>),
             "Use of eval() is a security risk", "security"),
        Rule("innerHTML\\s*=",
             Regex(0, <<Str("innerHTML"), Rep(0, -1, TRUE, <<Set({}, {"s"})>>), Str("=")>>),
             "innerHTML can lead to XSS vulnerabilities", "security"),
        Rule("document\\.write\\s*\\(",
             Regex(0, <<Str("document.write"), Rep(0, -1, TRUE, <<Set({}, {"s"})>>), Str("(")>>),
             "document.write() is deprecated", "warning"),
        Rule("==\\s*null|null\\s*==",
             Regex(0, <<Alt(<<<<Str("=="), Rep(0, -1, TRUE, <<Set({}, {"s"})>>), Str("null")>>,
                 <<Str("null"), Rep(0, -1, TRUE, <<Set({}, {"s"})>>), Str("==")>>>>)>>),
             "Use === for strict equality", "warning"),
        Rule("!=\\s*null|null\\s*!=",
             Regex(0, <<Alt(<<<<Str("!="), Rep(0, -1, TRUE, <<Set({}, {"s"})>>), Str("null")>>,
                 <<Str("null"), Rep(0, -1, TRUE, <<Set({}, {"s"})>>), Str("!=")>>>>)>>),
             "Use !== for strict inequality", "warning"),
        Rule("console\\.log\\s*\\(",
             Regex(0, <<Str("console.log"), Rep(0, -1, TRUE, <<Set({}, {"s"})>>), Str("(")>>),
             "Console log statement (debug)", "info"),
        Rule("debugger",
             Regex(0, <<Str("debugger")>>),
             "Debugger statement found", "warning"),
        Rule("alert\\s*\\(",
             Regex(0, <<Str("alert"), Rep(0, -1, TRUE, <<Set({}, {"s"})>>), Str("(")>>),
             "Alert statement (debug/bad UX)", "warning"),
        Rule("\\.then\\s*\\(.*\\.then\\s*\\(",
             Regex(0, <<Str(".then"), Rep(0, -1, TRUE, <<Set({}, {"s"})>>), Str("("), Rep(0, -1,
                 TRUE, <<NotSet({LineFeed}, {})>>), Str(".then"), Rep(0, -1, TRUE, <<Set({},
                 {"s"})>>), Str("(")>>),
             "Promise chain - consider async/await", "suggestion"),
        Rule("callback.*callback",
             Regex(0, <<Str("callback"), Rep(0, -1, TRUE, <<NotSet({LineFeed}, {})>>),
                 Str("callback")>>),
             "Nested callbacks - consider async/await", "warning"),
        Rule("new\\s+Function\\s*\\(",
             Regex(0, <<Str("new"), Rep(1, -1, TRUE, <<Set({}, {"s"})>>), Str("Function"), Rep(0,
                 -1, TRUE, <<Set({}, {"s"})>>), Str("(")>>),
             "Dynamic function creation is risky", "security"),
        Rule("setTimeout\\s*\\(['\\\"]",
             Regex(0, <<Str("setTimeout"), Rep(0, -1, TRUE, <<Set({}, {"s"})>>), Str("("),
                 Set(CharSet("'\""), {})>>),
             "String in setTimeout is like eval", "security")
     >>,
     java |-> <<
        Rule("catch\\s*\\(\\s*Exception\\s+",
             Regex(0, <<Str("catch"), Rep(0, -1, TRUE, <<Set({}, {"s"})>>), Str("("), Rep(0, -1,
                 TRUE, <<Set({}, {"s"})>>), Str("Exception"), Rep(1, -1, TRUE, <<Set({},
                 {"s"})>>)>>),
             "Catching generic Exception", "warning"),
        Rule("catch\\s*\\(\\s*Throwable\\s+",
             Regex(0, <<Str("catch"), Rep(0, -1, TRUE, <<Set({}, {"s"})>>), Str("("), Rep(0, -1,
                 TRUE, <<Set({}, {"s"})>>), Str("Throwable"), Rep(1, -1, TRUE, <<Set({},
                 {"s"})>>)>>),
             "Catching Throwable is too broad", "error"),
        Rule("e\\.printStackTrace\\s*\\(\\s*\\)",
             Regex(0, <<Str("e.printStackTrace"), Rep(0, -1, TRUE, <<Set({}, {"s"})>>), Str("("),
                 Rep(0, -1, TRUE, <<Set({}, {"s"})>>), Str(")")>>),
             "printStackTrace() in production code", "warning"),
        Rule("System\\.out\\.print",
             Regex(0, <<Str("System.out.print")>>),
             "System.out usage (use logger)", "warning"),
        Rule("public\\s+\\w+\\s+\\w+\\s*;",
             Regex(0, <<Str("public"), Rep(1, -1, TRUE, <<Set({}, {"s"})>>), Rep(1, -1, TRUE,
                 <<Set({}, {"w"})>>), Rep(1, -1, TRUE, <<Set({}, {"s"})>>), Rep(1, -1, TRUE,
                 <<Set({}, {"w"})>>), Rep(0, -1, TRUE, <<Set({}, {"s"})>>), Str(";")>>),
             "Public field without getter/setter", "warning"),
        Rule("new\\s+String\\s*\\(\\s*['\\\"]",
             Regex(0, <<Str("new"), Rep(1, -1, TRUE, <<Set({}, {"s"})>>), Str("String"), Rep(0, -1,
                 TRUE, <<Set({}, {"s"})>>), Str("("), Rep(0, -1, TRUE, <<Set({}, {"s"})>>),
                 Set(CharSet("'\""), {})>>),
             "Unnecessary String object creation", "suggestion"),
        Rule("==\\s*\\\"|\\\"\\s*==",
             Regex(0, <<Alt(<<<<Str("=="), Rep(0, -1, TRUE, <<Set({}, {"s"})>>), Str("\"")>>,
                 <<Str("\""), Rep(0, -1, TRUE, <<Set({}, {"s"})>>), Str("==")>>>>)>>),
             "String comparison with == instead of equals()", "error"),
        Rule("\\.equals\\s*\\(\\s*null\\s*\\)",
             Regex(0, <<Str(".equals"), Rep(0, -1, TRUE, <<Set({}, {"s"})>>), Str("("), Rep(0, -1,
                 TRUE, <<Set({}, {"s"})>>), Str("null"), Rep(0, -1, TRUE, <<Set({}, {"s"})>>),
                 Str(")")>>),
             "null.equals() will throw NPE", "error"),
        Rule("synchronized\\s*\\(\\s*this\\s*\\)",
             Regex(0, <<Str("synchronized"), Rep(0, -1, TRUE, <<Set({}, {"s"})>>), Str("("), Rep(0,
                 -1, TRUE, <<Set({}, {"s"})>>), Str("this"), Rep(0, -1, TRUE, <<Set({}, {"s"})>>),
                 Str(")")>>),
             "Synchronizing on 'this' is risky", "warning"),
        Rule("Thread\\.sleep\\s*\\(",
             Regex(0, <<Str("Thread.sleep"), Rep(0, -1, TRUE, <<Set({}, {"s"})>>), Str("(")>>),
             "Thread.sleep() in production code", "warning"),
        Rule("//\\s*TODO",
             Regex(0, <<Str("//"), Rep(0, -1, TRUE, <<Set({}, {"s"})>>), Str("TODO")>>),
             "TODO comment found", "info"),
        Rule("//\\s*FIXME",
             Regex(0, <<Str("//"), Rep(0, -1, TRUE, <<Set({}, {"s"})>>), Str("FIXME")>>),
             "FIXME comment found", "warning")
     >>,
     general |-> <<
        Rule("password|passwd|pwd",
             Regex(0, <<Str("p"), Alt(<<<<Str("assword")>>, <<Str("asswd")>>, <<Str("wd")>>>>)>>),
             "Potential password handling", "security"),
        Rule("secret|api[_-]?key|token",
             Regex(0, <<Alt(<<<<Str("secret")>>, <<Str("api"), Rep(0, 1, TRUE, <<Set(CharSet("_-"),
                 {})>>), Str("key")>>, <<Str("token")>>>>)>>),
             "Potential secret/token handling", "security"),
        Rule("TODO|FIXME|HACK|XXX",
             Regex(0, <<Alt(<<<<Str("TODO")>>, <<Str("FIXME")>>, <<Str("HACK")>>,
                 <<Str("XXX")>>>>)>>),
             "Unfinished code marker", "warning"),
        Rule("[A-Za-z]+\\d{3,}",
             Regex(0, <<Rep(1, -1, TRUE, <<Set(CharRange("A", "Z") \cup CharRange("a", "z"),
                 {})>>), Rep(3, -1, TRUE, <<Set({}, {"d"})>>)>>),
             "Magic number in identifier", "info")
     >>]

code_smells ==
    [long_function     |-> [limit |-> 50,  text |-> "Function is too long (> 50 lines)"],
     many_parameters   |-> [limit |-> 5,   text |-> "Too many parameters (> 5)"],
     deep_nesting      |-> [limit |-> 4,   text |-> "Deep nesting level (> 4)"],
     long_line         |-> [limit |-> 120, text |-> "Line too long (> 120 chars)"],
     complex_condition |-> [limit |-> 3,
                            text  |-> "Complex boolean condition (> 3 operators)"]]

\* RandomForestClassifier(n_estimators=100, ...)
NEstimators == 100

\* dict.get(key, [])
DictGet(dict, key) == IF key \in DOMAIN dict THEN dict[key] ELSE <<>>

\* dict.get(key, []) of a dict whose keys are literals, for a key that is a text
TextGet(dict, key) ==
    IF \E k \in DOMAIN dict : Points(k) = key
    THEN dict[CHOOSE k \in DOMAIN dict : Points(k) = key] ELSE <<>>

\* anti_patterns.get(language, [])
RulesFor(language) == TextGet(anti_patterns, language)

(***************************************************************************)
(* analyze, first half: the pattern scan (lines 235-253).                  *)
(***************************************************************************)
\* bool(re.search(pattern, line, re.IGNORECASE))
RuleMatches(rule, line) == ReSearch(rule.regex, line, TRUE)

\* a section that numbers the lines from 0
FlaggedSectionFromZero(rule, lines, i) ==
    [line     |-> i - 1,
     code     |-> Strip(lines[i]),
     issue    |-> rule.message,
     severity |-> rule.severity,
     pattern  |-> rule.pattern]

FlaggedSection(rule, lines, i) ==
    [line     |-> i,
     code     |-> Strip(lines[i]),
     issue    |-> rule.message,
     severity |-> rule.severity,
     pattern  |-> rule.pattern]

\* the rules of every language tag, one list after the other
AppliedFromAll(catalog, language) ==
    DictGet(catalog, "python") \o DictGet(catalog, "javascript")
      \o DictGet(catalog, "java") \o DictGet(catalog, "general")

\* catalog.get(language, []) + catalog.get("general", [])
AppliedFrom(catalog, language) == TextGet(catalog, language) \o DictGet(catalog, "general")

\* patterns = anti_patterns.get(language, []) + anti_patterns.get("general", [])
AppliedPatterns(language) == AppliedFrom(anti_patterns, language)

\* the (rule index, line number) pairs in the order the two nested loops
\* visit them: for each rule in turn, every line from first to last
LoopOrder(nrules, nlines) ==
    [k \in 1..(nrules * nlines) |->
        <<((k - 1) \div nlines) + 1, ((k - 1) % nlines) + 1>>]

\* the pairs at which the loop body's condition holds, in loop order
Hits(patterns, lines) ==
    SelectSeq(LoopOrder(Len(patterns), Len(lines)),
              LAMBDA h : RuleMatches(patterns[h[1]], lines[h[2]]))

\* what the loop body appends to flagged_sections at each of `hits`
FlaggedAt(patterns, lines, hits) ==
    SubSeq([k \in 1..Len(hits) |->
               FlaggedSection(patterns[hits[k][1]], lines, hits[k][2])],
           1, Len(hits))

\* what the loop body appends to issues: f"Line {i+1}: {message}"
IssuesAt(patterns, hits) ==
    SubSeq([k \in 1..Len(hits) |->
               "Line " \o ToString(hits[k][2]) \o ": " \o patterns[hits[k][1]].message],
           1, Len(hits))

\* flagged_sections after the pattern loop
ScanFlagged(patterns, lines) == FlaggedAt(patterns, lines, Hits(patterns, lines))

\* issues after the pattern loop
ScanIssues(patterns, lines) == IssuesAt(patterns, Hits(patterns, lines))

(***************************************************************************)
(* _detect_code_smells (lines 292-317).                                    *)
(***************************************************************************)
\* len(re.findall(pattern, s, flags)) for a pattern that cannot match ""
RECURSIVE ReCountFrom(_, _, _, _)
\* one more for the match m, and the search goes on behind it
ReCountOn(re, s, m, ic) ==
    IF m = <<>> THEN 0
    ELSE 1 + ReCountFrom(re, s, IF m[1].end > m[1].start THEN m[1].end
                                ELSE m[1].end + 1, ic)

ReCountFrom(re, s, p, ic) == ReCountOn(re, s, ReSearchFrom(re, s, p, ic), ic)

\* r'(and|or|\&\&|\|\|)'
\* len(re.findall(pattern, text, flags))
ReFindallCount(re, text, ic) == ReCountFrom(re, ReSubject(text, ic), 0, ic)

ComplexPattern ==
    Regex(1, <<Grp(1, <<Alt(<<<<Str("and")>>, <<Str("or")>>, <<Str("&&")>>,
          <<Str("||")>>>>)>>)>>)

LineNumbers(lines) == [i \in 1..Len(lines) |-> i]

\* one issue for each of the line numbers `at`, in order
IssuesFor(at, Text(_)) == SubSeq([k \in 1..Len(at) |-> Text(at[k])], 1, Len(at))

\* first loop: len(line) > long_line
LongLineIssues(lines) ==
    IssuesFor(SelectSeq(LineNumbers(lines),
                        LAMBDA i : Len(lines[i]) > code_smells.long_line.limit),
              LAMBDA i : "Line " \o ToString(i) \o ": " \o code_smells.long_line.text
                           \o " (" \o ToString(Len(lines[i])) \o " chars)")

\* the indentation in levels of 4, a started level counted as one
NestingRoundedUp(line) == (Len(line) - Len(LStrip(line)) + 3) \div 4

\* nesting = (len(line) - len(line.lstrip())) // 4
Nesting(line) == (Len(line) - Len(LStrip(line))) \div 4

\* second loop: nesting > deep_nesting
DeepNestingIssues(lines) ==
    IssuesFor(SelectSeq(LineNumbers(lines),
                        LAMBDA i : Nesting(lines[i]) > code_smells.deep_nesting.limit),
              LAMBDA i : "Line " \o ToString(i) \o ": " \o code_smells.deep_nesting.text
                           \o " (level " \o ToString(Nesting(lines[i])) \o ")")

\* third loop: len(re.findall(...)) > complex_condition
ComplexConditionIssues(lines) ==
    IssuesFor(SelectSeq(LineNumbers(lines),
                        LAMBDA i : ReFindallCount(ComplexPattern, lines[i], TRUE)
                                     > code_smells.complex_condition.limit),
              LAMBDA i : "Line " \o ToString(i) \o ": "
                           \o code_smells.complex_condition.text)

_detect_code_smells(lines) ==
    LongLineIssues(lines) \o DeepNestingIssues(lines) \o ComplexConditionIssues(lines)

(***************************************************************************)
(* analyze, second half: the risk score (lines 259-290).                   *)
(***************************************************************************)
Severities == {"error", "security", "warning", "info", "suggestion"}

\* severity_weights = {"error": 1.0, "security": 0.9, "warning": 0.5, ...}
severity_weights ==
    [sev \in Severities |->
        CASE sev = "error"      -> DFromRatio[10, 10]
          [] sev = "security"   -> DFromRatio[9, 10]
          [] sev = "warning"    -> DFromRatio[5, 10]
          [] sev = "info"       -> DFromRatio[2, 10]
          [] sev = "suggestion" -> DFromRatio[1, 10]]

\* the float literals of analyze
Lit00 == BZero

Lit02 == DFromRatio[2, 10]

Lit04 == DFromRatio[4, 10]

Lit06 == DFromRatio[6, 10]

Lit07 == DFromRatio[7, 10]

Lit10 == DFromRatio[1, 1]

\* every severity weighed as the .get default
SeverityWeightFlat(sev) == Lit02

\* severity_weights.get(section.get("severity", "info"), 0.2)
SeverityWeight(sev) ==
    IF sev \in DOMAIN severity_weights THEN severity_weights[sev] ELSE Lit02

\* pattern_score = 0; for section in flagged_sections: pattern_score += weight
RECURSIVE SumWeights(_, _, _)
SumWeights(flagged, i, acc) ==
    IF i > Len(flagged) THEN acc
    ELSE SumWeights(flagged, i + 1, DAdd[acc, SeverityWeight(flagged[i].severity)])

\* pattern_score = min(1.0, pattern_score / 5)
PatternScore(flagged) ==
    DMin[Lit10, DDivInt[SumWeights(flagged, 1, Lit00), 5]]

\* the two scores weighted alike
RiskScoreEven(flagged, ml) ==
    DMin[Lit10,
         DMax[Lit00, DAdd[DMul[DFromRatio[5, 10], ml],
                          DMul[DFromRatio[5, 10], PatternScore(flagged)]]]]

\* risk_score = min(1.0, max(0.0, 0.4 * ml_score + 0.6 * pattern_score))
RiskScore(flagged, ml) ==
    DMin[Lit10,
         DMax[Lit00, DAdd[DMul[Lit04, ml], DMul[Lit06, PatternScore(flagged)]]]]

\* the level is decided on the unrounded score
RiskLevel(risk) ==
    IF DGe[risk, Lit07] THEN "high"
    ELSE IF DGe[risk, Lit04] THEN "medium"
    ELSE "low"


(***************************************************************************)
(* _ml_classify (lines 319-329).  The fitted vectorizer and forest are     *)
(* library objects: what they answer for a text is given by `outcome`,     *)
(* either the number of the forest's NEstimators trees voting class 1      *)
(* (predict_proba is votes / n_estimators) or an exception.                *)
(***************************************************************************)
Lit05 == DFromRatio[5, 10]

Lit08 == DFromRatio[8, 10]

\* votes / n_estimators as a float
VoteShare == [k \in 0..NEstimators |-> DFromRatio[k, NEstimators]]

_ml_classify(trained, outcome) ==
    IF ~trained THEN Lit05
    ELSE IF outcome.raised THEN Lit05
    ELSE VoteShare[outcome.votes]

\* the DefectPrediction analyze builds from the findings and the classifier
DefectPrediction(risk, flagged, trained, issues) ==
    [risk_score       |-> Round3[risk],
     risk_level       |-> RiskLevel(risk),
     flagged_sections |-> flagged,
     confidence       |-> IF trained THEN Lit08 ELSE Lit05,
     issues_detected  |-> issues]

Predict(flagged, issues, trained, outcome) ==
    DefectPrediction(RiskScore(flagged, _ml_classify(trained, outcome)),
                     flagged, trained, issues)

\* the findings with the smells ahead of the pattern loop's issues
FindingsSmellsFirst(patterns, lines, hits) ==
    [flagged |-> FlaggedAt(patterns, lines, hits),
     issues  |-> _detect_code_smells(lines) \o IssuesAt(patterns, hits)]

\* the findings of analyze before scoring: the pattern loop, then the smells
Findings(patterns, lines, hits) ==
    [flagged |-> FlaggedAt(patterns, lines, hits),
     issues  |-> IssuesAt(patterns, hits) \o _detect_code_smells(lines)]

ScanLines(patterns, lines) == Findings(patterns, lines, Hits(patterns, lines))

Scan(code, language) == ScanLines(AppliedPatterns(language), SplitLines(code))

\* DefectClassifier.analyze(code, language)
PredictFrom(found, trained, outcome) ==
    Predict(found.flagged, found.issues, trained, outcome)

analyze(code, language, trained, outcome) ==
    PredictFrom(Scan(code, language), trained, outcome)

\* section.get(key, default) on a section given as a record
SectionGet(section, key, default) ==
    IF key \in DOMAIN section THEN section[key] ELSE default

\* summary[sev] = 1
CountedAnew(summary, sev) ==
    IF sev \in DOMAIN summary THEN [summary EXCEPT ![sev] = 1]
    ELSE summary @@ (sev :> 1)

\* summary[sev] = summary.get(sev, 0) + 1
Counted(summary, sev) ==
    IF sev \in DOMAIN summary THEN [summary EXCEPT ![sev] = @ + 1]
    ELSE summary @@ (sev :> 1)

\* the summary after the first n sections of the loop
RECURSIVE SummaryUpTo(_, _)
SummaryUpTo(flagged, n) ==
    IF n = 0
    THEN [error |-> 0, security |-> 0, warning |-> 0, info |-> 0, suggestion |-> 0]
    ELSE Counted(SummaryUpTo(flagged, n - 1), SectionGet(flagged[n], "severity", "info"))

get_severity_summary(flagged) == SummaryUpTo(flagged, Len(flagged))

(***************************************************************************)
(* backend/services/code_parser.py.  Optional values are sequences of at   *)
(* most one element: None is <<>>.  An operation that can raise returns    *)
(* [raised, value]: the exception's message, or the value it returns.      *)
(***************************************************************************)
None == <<>>

Some(x) == <<x>>

\* bool(x) of an optional string: None and '' are false
Truthy(opt) == opt # None /\ opt[1] # <<>>

Raise(msg) == [raised |-> Some(msg), value |-> None]

Return(value) == [raised |-> None, value |-> Some(value)]

\* the positions of the results that raised
RaisedAt(results) == {k \in 1..Len(results) : results[k].raised # None}

\* the values returned before the first of the positions `at`
ReturnedBefore(results, at) ==
    Each(IF at = {} THEN results ELSE SubSeq(results, 1, SetMin(at) - 1),
         LAMBDA r : r.value[1])

\* the exception raised at the first of the positions `at`
RaisedFirst(results, at) == IF at = {} THEN None ELSE results[SetMin(at)].raised

\* a loop that collects results: the first exception ends it
Collected(results, at) ==
    IF at = {} THEN Return(ReturnedBefore(results, at)) ELSE results[SetMin(at)]

\* Make(value) of what an operation returned; its exception otherwise
Then(result, Make(_)) ==
    IF result.raised # None THEN result ELSE Return(Make(result.value[1]))

FunctionInfo(name, start_line, end_line, signature, parameters, return_type, body, decorators, docstring, is_async, is_method, class_name) ==
    [name |-> name, start_line |-> start_line, end_line |-> end_line,
     signature |-> signature, parameters |-> parameters, return_type |-> return_type,
     body |-> body, decorators |-> decorators, docstring |-> docstring,
     is_async |-> is_async, is_method |-> is_method, class_name |-> class_name]

ClassInfo(name, start_line, end_line, bases, methods, attributes, docstring, decorators) ==
    [name |-> name, start_line |-> start_line, end_line |-> end_line, bases |-> bases,
     methods |-> methods, attributes |-> attributes, docstring |-> docstring,
     decorators |-> decorators]

ParseResult(language, functions, classes, imports, global_variables, errors, complexity_score) ==
    [language |-> language, functions |-> functions, classes |-> classes,
     imports |-> imports, global_variables |-> global_variables, errors |-> errors,
     complexity_score |-> complexity_score]

\* self.parsers: the languages with a parser of their own
parsers ==
    [python |-> "_parse_python", javascript |-> "_parse_javascript",
     typescript |-> "_parse_javascript", java |-> "_parse_java"]

keywords ==
    Each(<<"if", "else", "for", "while", "switch", "case", "try", "catch", "&&", "||", "?">>,
         Points)

\* code.count(kw) for each keyword
KeywordCounts(code) == [k \in 1..Len(keywords) |-> Count(code, keywords[k])]

\* the estimate without its cap
_estimate_complexity_uncapped(code) == (1 + Sum(KeywordCounts(code))) * 2

_estimate_complexity(code) == Min(100, (1 + Sum(KeywordCounts(code))) * 2)

_parse_generic_silent(code, language) ==
    ParseResult(language, <<>>, <<>>, <<>>, <<>>, <<>>, _estimate_complexity(code))

\* the language of the result and its error message are texts: they hold
\* the lower-cased tag
_parse_generic(code, language) ==
    ParseResult(language, <<>>, <<>>, <<>>, <<>>,
                <<Points("No specific parser for ") \o language
                    \o Points(", using generic analysis")>>,
                _estimate_complexity(code))

OpenBrace == Ord("{")

CloseBrace == Ord("}")

\* the number of unclosed braces after the characters at offsets start..i
BraceCount(code, start, i) ==
    Cardinality({q \in start..i : code[q + 1] = OpenBrace})
      - Cardinality({q \in start..i : code[q + 1] = CloseBrace})

\* (code[start:i+1], i) for the closing brace at offset i (-1: there is none)
BracedUpTo(code, start, i) ==
    IF i = -1 THEN <<Slice(code, start, Len(code)), Len(code)>>
    ELSE <<Slice(code, start, i + 1), i>>

\* the loop returning at the first closing brace whatever the count
_find_matching_brace_first(code, start) ==
    BracedUpTo(code, start, FirstOf({i \in start..(Len(code) - 1) : code[i + 1] = CloseBrace}))

\* the loop returns at the first closing brace that brings the count to zero
_find_matching_brace(code, start) ==
    BracedUpTo(code, start,
               FirstOf({i \in start..(Len(code) - 1) :
                           code[i + 1] = CloseBrace /\ BraceCount(code, start, i) = 0}))

\* re.finditer(pattern, s): the matches from left to right, none overlapping
RECURSIVE ReFindIterFrom(_, _, _)
ReFindIterOn(re, s, m) ==
    IF m = <<>> THEN <<>>
    ELSE m \o ReFindIterFrom(re, s, IF m[1].end > m[1].start THEN m[1].end
                                    ELSE m[1].end + 1)

ReFindIterFrom(re, s, p) == ReFindIterOn(re, s, ReSearchFrom(re, s, p, FALSE))

ReFindIter(re, s) == ReFindIterFrom(re, s, 0)

\* match.group(0)
MatchText(s, m) == Slice(s, m.start, m.end)

\* match.group(k) for k >= 1: None when the group took no part in the match
Group(s, m, k) ==
    IF m.g[k][1] = -1 THEN None ELSE Some(Slice(s, m.g[k][1], m.g[k][2]))

\* re.findall(pattern, s) for a pattern with one group
ReFindAll(re, s) == Each(ReFindIter(re, s), LAMBDA m : Group(s, m, 1)[1])

\* code[:offset].count('\n') + 1
LineOf(code, offset) == Count(Slice(code, 0, offset), <<LineFeed>>) + 1

\* _parse_javascript: import_pattern = r"import\s+(?:{[^}]+}|\*\s+as\s+\w+|\w+)\s+from\s+['\"]([^'\"]+)['\"]"
JsImportPattern ==
    Regex(1, <<Str("import"), Rep(1, -1, TRUE, <<Set({}, {"s"})>>), Alt(<<<<Str("{"),
          Rep(1, -1, TRUE, <<NotSet(CharSet("}"), {})>>), Str("}")>>, <<Str("*"), Rep(1,
          -1, TRUE, <<Set({}, {"s"})>>), Str("as"), Rep(1, -1, TRUE, <<Set({}, {"s"})>>),
          Rep(1, -1, TRUE, <<Set({}, {"w"})>>)>>, <<Rep(1, -1, TRUE, <<Set({},
          {"w"})>>)>>>>), Rep(1, -1, TRUE, <<Set({}, {"s"})>>), Str("from"), Rep(1, -1,
          TRUE, <<Set({}, {"s"})>>), Set(CharSet("'\""), {}), Grp(1, <<Rep(1, -1, TRUE,
          <<NotSet(CharSet("'\""), {})>>)>>), Set(CharSet("'\""), {})>>)

\* func_patterns[0] = r"(?:async\s+)?function\s+(\w+)\s*\(([^)]*)\)\s*(?::\s*(\w+))?\s*{"
JsFuncPattern1 ==
    Regex(3, <<Rep(0, 1, TRUE, <<Str("async"), Rep(1, -1, TRUE, <<Set({}, {"s"})>>)>>),
          Str("function"), Rep(1, -1, TRUE, <<Set({}, {"s"})>>), Grp(1, <<Rep(1, -1, TRUE,
          <<Set({}, {"w"})>>)>>), Rep(0, -1, TRUE, <<Set({}, {"s"})>>), Str("("), Grp(2,
          <<Rep(0, -1, TRUE, <<NotSet(CharSet(")"), {})>>)>>), Str(")"), Rep(0, -1, TRUE,
          <<Set({}, {"s"})>>), Rep(0, 1, TRUE, <<Str(":"), Rep(0, -1, TRUE, <<Set({},
          {"s"})>>), Grp(3, <<Rep(1, -1, TRUE, <<Set({}, {"w"})>>)>>)>>), Rep(0, -1, TRUE,
          <<Set({}, {"s"})>>), Str("{")>>)

\* func_patterns[1] = r"(?:const|let|var)\s+(\w+)\s*=\s*(?:async\s+)?\([^)]*\)\s*(?::\s*(\w+))?\s*=>\s*{?"
JsFuncPattern2 ==
    Regex(2, <<Alt(<<<<Str("const")>>, <<Str("let")>>, <<Str("var")>>>>), Rep(1, -1, TRUE,
          <<Set({}, {"s"})>>), Grp(1, <<Rep(1, -1, TRUE, <<Set({}, {"w"})>>)>>), Rep(0, -1,
          TRUE, <<Set({}, {"s"})>>), Str("="), Rep(0, -1, TRUE, <<Set({}, {"s"})>>), Rep(0,
          1, TRUE, <<Str("async"), Rep(1, -1, TRUE, <<Set({}, {"s"})>>)>>), Str("("),
          Rep(0, -1, TRUE, <<NotSet(CharSet(")"), {})>>), Str(")"), Rep(0, -1, TRUE,
          <<Set({}, {"s"})>>), Rep(0, 1, TRUE, <<Str(":"), Rep(0, -1, TRUE, <<Set({},
          {"s"})>>), Grp(2, <<Rep(1, -1, TRUE, <<Set({}, {"w"})>>)>>)>>), Rep(0, -1, TRUE,
          <<Set({}, {"s"})>>), Str("=>"), Rep(0, -1, TRUE, <<Set({}, {"s"})>>), Rep(0, 1,
          TRUE, <<Str("{")>>)>>)

\* func_patterns[2] = r"(?:const|let|var)\s+(\w+)\s*=\s*(?:async\s+)?function\s*\([^)]*\)"
JsFuncPattern3 ==
    Regex(1, <<Alt(<<<<Str("const")>>, <<Str("let")>>, <<Str("var")>>>>), Rep(1, -1, TRUE,
          <<Set({}, {"s"})>>), Grp(1, <<Rep(1, -1, TRUE, <<Set({}, {"w"})>>)>>), Rep(0, -1,
          TRUE, <<Set({}, {"s"})>>), Str("="), Rep(0, -1, TRUE, <<Set({}, {"s"})>>), Rep(0,
          1, TRUE, <<Str("async"), Rep(1, -1, TRUE, <<Set({}, {"s"})>>)>>),
          Str("function"), Rep(0, -1, TRUE, <<Set({}, {"s"})>>), Str("("), Rep(0, -1, TRUE,
          <<NotSet(CharSet(")"), {})>>), Str(")")>>)

\* _parse_javascript: class_pattern = r"class\s+(\w+)(?:\s+extends\s+(\w+))?\s*{"
JsClassPattern ==
    Regex(2, <<Str("class"), Rep(1, -1, TRUE, <<Set({}, {"s"})>>), Grp(1, <<Rep(1, -1,
          TRUE, <<Set({}, {"w"})>>)>>), Rep(0, 1, TRUE, <<Rep(1, -1, TRUE, <<Set({},
          {"s"})>>), Str("extends"), Rep(1, -1, TRUE, <<Set({}, {"s"})>>), Grp(2, <<Rep(1,
          -1, TRUE, <<Set({}, {"w"})>>)>>)>>), Rep(0, -1, TRUE, <<Set({}, {"s"})>>),
          Str("{")>>)

\* _parse_java: import_pattern = r"import\s+([\w.]+);"
JavaImportPattern ==
    Regex(1, <<Str("import"), Rep(1, -1, TRUE, <<Set({}, {"s"})>>), Grp(1, <<Rep(1, -1,
          TRUE, <<Set(CharSet("."), {"w"})>>)>>), Str(";")>>)

\* _parse_java: class_pattern = r"(?:public\s+)?(?:abstract\s+)?class\s+(\w+)(?:\s+extends\s+(\w+))?(?:\s+implements\s+([\w,\s]+))?\s*{"
JavaClassPattern ==
    Regex(3, <<Rep(0, 1, TRUE, <<Str("public"), Rep(1, -1, TRUE, <<Set({}, {"s"})>>)>>),
          Rep(0, 1, TRUE, <<Str("abstract"), Rep(1, -1, TRUE, <<Set({}, {"s"})>>)>>),
          Str("class"), Rep(1, -1, TRUE, <<Set({}, {"s"})>>), Grp(1, <<Rep(1, -1, TRUE,
          <<Set({}, {"w"})>>)>>), Rep(0, 1, TRUE, <<Rep(1, -1, TRUE, <<Set({}, {"s"})>>),
          Str("extends"), Rep(1, -1, TRUE, <<Set({}, {"s"})>>), Grp(2, <<Rep(1, -1, TRUE,
          <<Set({}, {"w"})>>)>>)>>), Rep(0, 1, TRUE, <<Rep(1, -1, TRUE, <<Set({},
          {"s"})>>), Str("implements"), Rep(1, -1, TRUE, <<Set({}, {"s"})>>), Grp(3,
          <<Rep(1, -1, TRUE, <<Set(CharSet(","), {"w", "s"})>>)>>)>>), Rep(0, -1, TRUE,
          <<Set({}, {"s"})>>), Str("{")>>)

\* _parse_java: method_pattern = r"(?:public|private|protected)?\s*(?:static\s+)?(?:final\s+)?(\w+(?:<[^>]+>)?)\s+(\w+)\s*\(([^)]*)\)\s*(?:throws\s+[\w,\s]+)?\s*{"
JavaMethodPattern ==
    Regex(3, <<Rep(0, 1, TRUE, <<Str("p"), Alt(<<<<Str("ublic")>>, <<Str("rivate")>>,
          <<Str("rotected")>>>>)>>), Rep(0, -1, TRUE, <<Set({}, {"s"})>>), Rep(0, 1, TRUE,
          <<Str("static"), Rep(1, -1, TRUE, <<Set({}, {"s"})>>)>>), Rep(0, 1, TRUE,
          <<Str("final"), Rep(1, -1, TRUE, <<Set({}, {"s"})>>)>>), Grp(1, <<Rep(1, -1,
          TRUE, <<Set({}, {"w"})>>), Rep(0, 1, TRUE, <<Str("<"), Rep(1, -1, TRUE,
          <<NotSet(CharSet(">"), {})>>), Str(">")>>)>>), Rep(1, -1, TRUE, <<Set({},
          {"s"})>>), Grp(2, <<Rep(1, -1, TRUE, <<Set({}, {"w"})>>)>>), Rep(0, -1, TRUE,
          <<Set({}, {"s"})>>), Str("("), Grp(3, <<Rep(0, -1, TRUE, <<NotSet(CharSet(")"),
          {})>>)>>), Str(")"), Rep(0, -1, TRUE, <<Set({}, {"s"})>>), Rep(0, 1, TRUE,
          <<Str("throws"), Rep(1, -1, TRUE, <<Set({}, {"s"})>>), Rep(1, -1, TRUE,
          <<Set(CharSet(","), {"w", "s"})>>)>>), Rep(0, -1, TRUE, <<Set({}, {"s"})>>),
          Str("{")>>)

\* FunctionInfo(...) with the defaults of is_async, is_method and class_name
\* for what the call does not pass
JsFunctionInfo(name, line_num, braced, signature) ==
    FunctionInfo(name, line_num, braced[2], signature, <<>>, None, braced[1], <<>>,
                 None, Contains(signature, Points("async")), FALSE, None)

\* body and the number of the line the body ends on, counted within the body
BodyAndEndLineWithin(code, found) == <<found[1], Count(found[1], <<LineFeed>>) + 1>>

\* body and end_line, from (body, end_idx)
BodyAndEndLine(code, found) == <<found[1], LineOf(code, found[2])>>

\* body and end_line of the function matched on line line_num, whose body
\* is looked for from the first brace at or after the match
JsBody(code, line_num, body_start) ==
    IF body_start # -1 THEN BodyAndEndLine(code, _find_matching_brace(code, body_start))
    ELSE <<<<>>, line_num>>

\* the body of the loop over re.finditer(pattern, code)
JsFunction(code, m) ==
    JsFunctionInfo(Group(code, m, 1)[1], LineOf(code, m.start),
                   JsBody(code, LineOf(code, m.start), Find(code, <<OpenBrace>>, m.start)),
                   MatchText(code, m))

JsFunctionsOf(code, pattern) ==
    Each(ReFindIter(pattern, code), LAMBDA m : JsFunction(code, m))

JsClass(code, m) ==
    ClassInfo(Group(code, m, 1)[1], LineOf(code, m.start), LineOf(code, m.start),
              IF Truthy(Group(code, m, 2)) THEN Group(code, m, 2) ELSE <<>>,
              <<>>, <<>>, None, <<>>)

_parse_javascript(code) ==
    ParseResult(Points("javascript"),
                Flatten(Each(<<JsFuncPattern1, JsFuncPattern2, JsFuncPattern3>>,
                             LAMBDA pattern : JsFunctionsOf(code, pattern))),
                Each(ReFindIter(JsClassPattern, code), LAMBDA m : JsClass(code, m)),
                ReFindAll(JsImportPattern, code),
                <<>>, <<>>, _estimate_complexity(code))

\* bases of a Java class: the superclass, then the interfaces
JavaBases(base, interfaces) ==
    (IF Truthy(base) THEN base ELSE <<>>)
      \o (IF Truthy(interfaces) THEN Each(Split(interfaces[1], Ord(",")), Strip) ELSE <<>>)

JavaClass(code, m) ==
    ClassInfo(Group(code, m, 1)[1], LineOf(code, m.start), LineOf(code, m.start),
              JavaBases(Group(code, m, 2), Group(code, m, 3)),
              <<>>, <<>>, None, <<>>)

\* the parameter a declaration `parts` names, when it has a type and a name
JavaParameter(parts) ==
    IF Len(parts) >= 2
    THEN <<[name |-> parts[Len(parts)], type |-> Some(Join(Points(" "), SubSeq(parts, 1, Len(parts) - 1))),
            default |-> None]>>
    ELSE <<>>

JavaParameters(params) ==
    IF Strip(params) # <<>>
    THEN Flatten(Each(Split(params, Ord(",")), LAMBDA param : JavaParameter(SplitWords(Strip(param)))))
    ELSE <<>>

JavaMethodInfo(return_type, name, params, line_num) ==
    FunctionInfo(name, line_num, line_num,
                 return_type \o Points(" ") \o name \o Points("(") \o params \o Points(")"),
                 JavaParameters(params), Some(return_type), <<>>, <<>>, None,
                 FALSE, FALSE, None)

\* if name in ['if', 'while', 'for', 'switch', 'try', 'catch']
JavaControlWords == {Points(w) : w \in {"if", "while", "for", "switch", "try", "catch"}}

\* the body of the loop over the methods: nothing for a control keyword
JavaMethod(code, m) ==
    IF Group(code, m, 2)[1] \in JavaControlWords THEN <<>>
    ELSE <<JavaMethodInfo(Group(code, m, 1)[1], Group(code, m, 2)[1], Group(code, m, 3)[1],
                          LineOf(code, m.start))>>

_parse_java(code) ==
    ParseResult(Points("java"),
                Flatten(Each(ReFindIter(JavaMethodPattern, code),
                             LAMBDA m : JavaMethod(code, m))),
                Each(ReFindIter(JavaClassPattern, code), LAMBDA m : JavaClass(code, m)),
                ReFindAll(JavaImportPattern, code),
                <<>>, <<>>, _estimate_complexity(code))

(***************************************************************************)
(* Python sources.  What ast.parse answers is given: either the exception  *)
(* it raises, or the tree, as the sequence of its nodes in the order       *)
(* ast.walk visits them.  A node carries its class, its name (a            *)
(* definition's name, an alias's name, an argument's arg, a Name's id),    *)
(* its lines, the text ast.unparse gives for it, the docstring             *)
(* ast.get_docstring gives for it, its children in the order of            *)
(* ast.iter_child_nodes, and its fields: the positions of the nodes a      *)
(* field holds.                                                            *)
(***************************************************************************)
Node(type, name, lineno, end_lineno, text, doc, kids, f) ==
    [type |-> type, name |-> name, lineno |-> lineno, end_lineno |-> end_lineno,
     text |-> text, doc |-> doc, kids |-> kids, f |-> f]

\* the nodes a field of node n holds: none for None and for an empty list
Field(tree, n, name) == Each(DictGet(n.f, name), LAMBDA k : tree[k])

\* ast.walk from the nodes at the positions todo: breadth first
RECURSIVE AstWalk(_, _)
AstWalk(tree, todo) ==
    IF todo = <<>> THEN <<>>
    ELSE <<tree[Head(todo)]>> \o AstWalk(tree, Tail(todo) \o tree[Head(todo)].kids)

\* the imports one node adds
ImportsOf(tree, n) ==
    CASE n.type = "Import" -> Each(Field(tree, n, "names"), LAMBDA alias : alias.name)
      [] n.type = "ImportFrom" ->
           Each(Field(tree, n, "names"),
                LAMBDA alias : (IF Truthy(DictGet(n.f, "module"))
                                THEN DictGet(n.f, "module")[1] ELSE <<>>)
                                 \o Points(".") \o alias.name)
      [] OTHER -> <<>>

\* what one node adds to the complexity
ComplexityOf(tree, n) ==
    CASE n.type \in {"If", "While", "For", "ExceptHandler"} -> 1
      [] n.type = "BoolOp" -> Len(Field(tree, n, "values")) - 1
      [] n.type \in {"And", "Or"} -> 1
      [] OTHER -> 0

\* a score that starts over above 100 instead of stopping there
_calculate_complexity_wrapped(tree) ==
    ((1 + Sum(Each(AstWalk(tree, <<1>>), LAMBDA n : ComplexityOf(tree, n)))) * 5) % 101

_calculate_complexity(tree) ==
    Min(100, (1 + Sum(Each(AstWalk(tree, <<1>>), LAMBDA n : ComplexityOf(tree, n)))) * 5)

\* the parameter one argument makes, before the defaults are filled in
Parameter(tree, arg) ==
    [name |-> arg.name,
     type |-> Each(Field(tree, arg, "annotation"), LAMBDA a : a.text),
     default |-> None]

\* the position (from 1) of list index k in a list of n items, 0 when the
\* index is out of range; a negative index counts from the end
ListIndex(n, k) ==
    IF k >= 0 THEN (IF k < n THEN k + 1 ELSE 0)
    ELSE (IF k + n >= 0 THEN k + n + 1 ELSE 0)

\* parameters[offset + i]['default'] = ast.unparse(default), for the
\* defaults from the i-th (counted from 0) on
RECURSIVE SetDefaults(_, _, _, _)
SetDefaultAt(parameters, defaults, offset, i, at) ==
    IF at = 0 THEN Raise(Points("list index out of range"))
    ELSE SetDefaults([parameters EXCEPT ![at].default = Some(defaults[i + 1].text)],
                     defaults, offset, i + 1)

SetDefaults(parameters, defaults, offset, i) ==
    IF i >= Len(defaults) THEN Return(parameters)
    ELSE SetDefaultAt(parameters, defaults, offset, i,
                      ListIndex(Len(parameters), offset + i))

\* the parameters of the arguments node, with their defaults
ParametersOf(parameters, defaults) ==
    IF defaults # <<>>
    THEN SetDefaults(parameters, defaults, Len(parameters) - Len(defaults), 0)
    ELSE Return(parameters)

\* one entry of params_str
ParamStr(p) ==
    p.name \o (IF Truthy(p.type) THEN Points(": ") \o p.type[1] ELSE <<>>)
           \o (IF Truthy(p.default) THEN Points(" = ") \o p.default[1] ELSE <<>>)

Signature(name, parameters, return_type) ==
    Points("def ") \o name \o Points("(") \o Join(Points(", "), Each(parameters, ParamStr))
      \o Points(")")
      \o (IF Truthy(return_type) THEN Points(" -> ") \o return_type[1] ELSE <<>>)

\* what _extract_python_function returns once the parameters are known
PythonFunctionInfo(tree, node, lines, class_name, parameters, return_type) ==
    FunctionInfo(node.name, node.lineno, node.end_lineno,
                 Signature(node.name, parameters, return_type),
                 parameters, return_type,
                 Join(<<LineFeed>>, Slice(lines, node.lineno - 1, node.end_lineno)),
                 Each(Field(tree, node, "decorator_list"), LAMBDA dec : dec.text),
                 node.doc, node.type = "AsyncFunctionDef", class_name # None, class_name)

PythonArguments(tree, arguments) ==
    ParametersOf(Each(Field(tree, arguments, "args"), LAMBDA arg : Parameter(tree, arg)),
                 Field(tree, arguments, "defaults"))

_extract_python_function(tree, node, lines, class_name) ==
    Then(PythonArguments(tree, Field(tree, node, "args")[1]),
         LAMBDA parameters :
             PythonFunctionInfo(tree, node, lines, class_name, parameters,
                                Each(Field(tree, node, "returns"), LAMBDA r : r.text)))

IsFunction(n) == n.type \in {"FunctionDef", "AsyncFunctionDef"}

\* the attribute an annotated assignment to a name declares
PythonAttribute(tree, item) ==
    [name |-> Field(tree, item, "target")[1].name,
     type |-> Each(Field(tree, item, "annotation"), LAMBDA a : a.text),
     line |-> item.lineno]

PythonClassInfo(tree, node, methods) ==
    ClassInfo(node.name, node.lineno, node.end_lineno,
              Each(Field(tree, node, "bases"), LAMBDA base : base.text),
              methods,
              Each(SelectSeq(Field(tree, node, "body"),
                             LAMBDA item : item.type = "AnnAssign"
                                             /\ Field(tree, item, "target")[1].type = "Name"),
                   LAMBDA item : PythonAttribute(tree, item)),
              node.doc,
              Each(Field(tree, node, "decorator_list"), LAMBDA dec : dec.text))

\* the loop over the methods of the class
PythonMethods(results) == Collected(results, RaisedAt(results))

_extract_python_class(tree, node, lines) ==
    Then(PythonMethods(Each(SelectSeq(Field(tree, node, "body"), IsFunction),
                            LAMBDA item : _extract_python_function(
                                              tree, item, lines, Some(node.name)))),
         LAMBDA methods : PythonClassInfo(tree, node, methods))

\* what ast.parse answers for the Python sources the model is run on
ast_parse ==
    (<<>> :>
      [raised |-> "", lineno |-> <<>>, msg |-> <<>>,
       tree |-> <<
        Node("Module", <<>>, 0, 0, <<>>, <<>>, <<>>, <<>>)>>])
    @@
    (Points("x = a and b\n") :>
      [raised |-> "", lineno |-> <<>>, msg |-> <<>>,
       tree |-> <<
        Node("Module", <<>>, 0, 0, <<>>, <<>>, <<2>>, ("body" :> <<2>>)),
        Node("Assign", <<>>, 1, 1, <<>>, <<>>, <<3, 4>>, ("targets" :> <<3>>) @@ ("value" :> <<4>>)),
        Node("Name", Points("x"), 1, 1, <<>>, <<>>, <<5>>, ("ctx" :> <<5>>)),
        Node("BoolOp", <<>>, 1, 1, Points("a and b"), <<>>, <<6, 7, 8>>, ("op" :> <<6>>) @@ ("values" :> <<7, 8>>)),
        Node("Store", <<>>, 0, 0, <<>>, <<>>, <<>>, <<>>),
        Node("And", <<>>, 0, 0, <<>>, <<>>, <<>>, <<>>),
        Node("Name", Points("a"), 1, 1, <<>>, <<>>, <<9>>, ("ctx" :> <<9>>)),
        Node("Name", Points("b"), 1, 1, <<>>, <<>>, <<10>>, ("ctx" :> <<10>>)),
        Node("Load", <<>>, 0, 0, <<>>, <<>>, <<>>, <<>>),
        Node("Load", <<>>, 0, 0, <<>>, <<>>, <<>>, <<>>)>>])
    @@
    (Points("import os\nfrom . import x\nfrom a.b import c, d\nx = 1\ny, z = 2, 3\nx = y = os\n") :>
      [raised |-> "", lineno |-> <<>>, msg |-> <<>>,
       tree |-> <<
        Node("Module", <<>>, 0, 0, <<>>, <<>>, <<2, 3, 4, 5, 6, 7>>, ("body" :> <<2, 3, 4, 5, 6, 7>>)),
        Node("Import", <<>>, 1, 1, <<>>, <<>>, <<8>>, ("names" :> <<8>>)),
        Node("ImportFrom", <<>>, 2, 2, <<>>, <<>>, <<9>>, ("names" :> <<9>>) @@ ("module" :> <<>>)),
        Node("ImportFrom", <<>>, 3, 3, <<>>, <<>>, <<10, 11>>, ("names" :> <<10, 11>>) @@ ("module" :> <<Points("a.b")>>)),
        Node("Assign", <<>>, 4, 4, <<>>, <<>>, <<12, 13>>, ("targets" :> <<12>>) @@ ("value" :> <<13>>)),
        Node("Assign", <<>>, 5, 5, <<>>, <<>>, <<14, 15>>, ("targets" :> <<14>>) @@ ("value" :> <<15>>)),
        Node("Assign", <<>>, 6, 6, <<>>, <<>>, <<16, 17, 18>>, ("targets" :> <<16, 17>>) @@ ("value" :> <<18>>)),
        Node("alias", Points("os"), 1, 1, <<>>, <<>>, <<>>, <<>>),
        Node("alias", Points("x"), 2, 2, <<>>, <<>>, <<>>, <<>>),
        Node("alias", Points("c"), 3, 3, <<>>, <<>>, <<>>, <<>>),
        Node("alias", Points("d"), 3, 3, <<>>, <<>>, <<>>, <<>>),
        Node("Name", Points("x"), 4, 4, <<>>, <<>>, <<19>>, ("ctx" :> <<19>>)),
        Node("Constant", <<>>, 4, 4, Points("1"), <<>>, <<>>, <<>>),
        Node("Tuple", <<>>, 5, 5, <<>>, <<>>, <<20, 21, 22>>, ("elts" :> <<20, 21>>) @@ ("ctx" :> <<22>>)),
        Node("Tuple", <<>>, 5, 5, Points("(2, 3)"), <<>>, <<23, 24, 25>>, ("elts" :> <<23, 24>>) @@ ("ctx" :> <<25>>)),
        Node("Name", Points("x"), 6, 6, <<>>, <<>>, <<26>>, ("ctx" :> <<26>>)),
        Node("Name", Points("y"), 6, 6, <<>>, <<>>, <<27>>, ("ctx" :> <<27>>)),
        Node("Name", Points("os"), 6, 6, Points("os"), <<>>, <<28>>, ("ctx" :> <<28>>)),
        Node("Store", <<>>, 0, 0, <<>>, <<>>, <<>>, <<>>),
        Node("Name", Points("y"), 5, 5, <<>>, <<>>, <<29>>, ("ctx" :> <<29>>)),
        Node("Name", Points("z"), 5, 5, <<>>, <<>>, <<30>>, ("ctx" :> <<30>>)),
        Node("Store", <<>>, 0, 0, <<>>, <<>>, <<>>, <<>>),
        Node("Constant", <<>>, 5, 5, <<>>, <<>>, <<>>, <<>>),
        Node("Constant", <<>>, 5, 5, <<>>, <<>>, <<>>, <<>>),
        Node("Load", <<>>, 0, 0, <<>>, <<>>, <<>>, <<>>),
        Node("Store", <<>>, 0, 0, <<>>, <<>>, <<>>, <<>>),
        Node("Store", <<>>, 0, 0, <<>>, <<>>, <<>>, <<>>),
        Node("Load", <<>>, 0, 0, <<>>, <<>>, <<>>, <<>>),
        Node("Store", <<>>, 0, 0, <<>>, <<>>, <<>>, <<>>),
        Node("Store", <<>>, 0, 0, <<>>, <<>>, <<>>, <<>>)>>])
    @@
    (Points("def f(a, b: int = 2) -> str:\n    'doc'\n    if a and b or a:\n        return a\n    for i in a:\n        pass\n") :>
      [raised |-> "", lineno |-> <<>>, msg |-> <<>>,
       tree |-> <<
        Node("Module", <<>>, 0, 0, <<>>, <<>>, <<2>>, ("body" :> <<2>>)),
        Node("FunctionDef", Points("f"), 1, 6, <<>>, <<Points("doc")>>, <<3, 4, 5, 6, 7>>, ("args" :> <<3>>) @@ ("body" :> <<4, 5, 6>>) @@ ("returns" :> <<7>>)),
        Node("arguments", <<>>, 0, 0, <<>>, <<>>, <<8, 9, 10>>, ("args" :> <<8, 9>>) @@ ("defaults" :> <<10>>)),
        Node("Expr", <<>>, 2, 2, <<>>, <<>>, <<11>>, ("value" :> <<11>>)),
        Node("If", <<>>, 3, 4, <<>>, <<>>, <<12, 13>>, ("test" :> <<12>>) @@ ("body" :> <<13>>)),
        Node("For", <<>>, 5, 6, <<>>, <<>>, <<14, 15, 16>>, ("target" :> <<14>>) @@ ("iter" :> <<15>>) @@ ("body" :> <<16>>)),
        Node("Name", Points("str"), 1, 1, Points("str"), <<>>, <<17>>, ("ctx" :> <<17>>)),
        Node("arg", Points("a"), 1, 1, <<>>, <<>>, <<>>, <<>>),
        Node("arg", Points("b"), 1, 1, <<>>, <<>>, <<18>>, ("annotation" :> <<18>>)),
        Node("Constant", <<>>, 1, 1, Points("2"), <<>>, <<>>, <<>>),
        Node("Constant", <<>>, 2, 2, <<>>, <<>>, <<>>, <<>>),
        Node("BoolOp", <<>>, 3, 3, <<>>, <<>>, <<19, 20, 21>>, ("op" :> <<19>>) @@ ("values" :> <<20, 21>>)),
        Node("Return", <<>>, 4, 4, <<>>, <<>>, <<22>>, ("value" :> <<22>>)),
        Node("Name", Points("i"), 5, 5, <<>>, <<>>, <<23>>, ("ctx" :> <<23>>)),
        Node("Name", Points("a"), 5, 5, <<>>, <<>>, <<24>>, ("ctx" :> <<24>>)),
        Node("Pass", <<>>, 6, 6, <<>>, <<>>, <<>>, <<>>),
        Node("Load", <<>>, 0, 0, <<>>, <<>>, <<>>, <<>>),
        Node("Name", Points("int"), 1, 1, Points("int"), <<>>, <<25>>, ("ctx" :> <<25>>)),
        Node("Or", <<>>, 0, 0, <<>>, <<>>, <<>>, <<>>),
        Node("BoolOp", <<>>, 3, 3, <<>>, <<>>, <<26, 27, 28>>, ("op" :> <<26>>) @@ ("values" :> <<27, 28>>)),
        Node("Name", Points("a"), 3, 3, <<>>, <<>>, <<29>>, ("ctx" :> <<29>>)),
        Node("Name", Points("a"), 4, 4, <<>>, <<>>, <<30>>, ("ctx" :> <<30>>)),
        Node("Store", <<>>, 0, 0, <<>>, <<>>, <<>>, <<>>),
        Node("Load", <<>>, 0, 0, <<>>, <<>>, <<>>, <<>>),
        Node("Load", <<>>, 0, 0, <<>>, <<>>, <<>>, <<>>),
        Node("And", <<>>, 0, 0, <<>>, <<>>, <<>>, <<>>),
        Node("Name", Points("a"), 3, 3, <<>>, <<>>, <<31>>, ("ctx" :> <<31>>)),
        Node("Name", Points("b"), 3, 3, <<>>, <<>>, <<32>>, ("ctx" :> <<32>>)),
        Node("Load", <<>>, 0, 0, <<>>, <<>>, <<>>, <<>>),
        Node("Load", <<>>, 0, 0, <<>>, <<>>, <<>>, <<>>),
        Node("Load", <<>>, 0, 0, <<>>, <<>>, <<>>, <<>>),
        Node("Load", <<>>, 0, 0, <<>>, <<>>, <<>>, <<>>)>>])
    @@
    (Points("import os\ndef g(): pass\ndef f(a=1, /): pass\n") :>
      [raised |-> "", lineno |-> <<>>, msg |-> <<>>,
       tree |-> <<
        Node("Module", <<>>, 0, 0, <<>>, <<>>, <<2, 3, 4>>, ("body" :> <<2, 3, 4>>)),
        Node("Import", <<>>, 1, 1, <<>>, <<>>, <<5>>, ("names" :> <<5>>)),
        Node("FunctionDef", Points("g"), 2, 2, <<>>, <<>>, <<6, 7>>, ("args" :> <<6>>) @@ ("body" :> <<7>>)),
        Node("FunctionDef", Points("f"), 3, 3, <<>>, <<>>, <<8, 9>>, ("args" :> <<8>>) @@ ("body" :> <<9>>)),
        Node("alias", Points("os"), 1, 1, <<>>, <<>>, <<>>, <<>>),
        Node("arguments", <<>>, 0, 0, <<>>, <<>>, <<>>, <<>>),
        Node("Pass", <<>>, 2, 2, <<>>, <<>>, <<>>, <<>>),
        Node("arguments", <<>>, 0, 0, <<>>, <<>>, <<10, 11>>, ("posonlyargs" :> <<10>>) @@ ("defaults" :> <<11>>)),
        Node("Pass", <<>>, 3, 3, <<>>, <<>>, <<>>, <<>>),
        Node("arg", Points("a"), 3, 3, <<>>, <<>>, <<>>, <<>>),
        Node("Constant", <<>>, 3, 3, Points("1"), <<>>, <<>>, <<>>)>>])
    @@
    (Points("def f(:\n") :>
      [raised |-> "SyntaxError", lineno |-> <<1>>, msg |-> Points("invalid syntax")])
    @@
    (Points("@dec\nclass A(B):\n    'd'\n    n: int = 0\n    async def m(self, k=1, /, j=2):\n        try:\n            pass\n        except E:\n            pass\n") :>
      [raised |-> "", lineno |-> <<>>, msg |-> <<>>,
       tree |-> <<
        Node("Module", <<>>, 0, 0, <<>>, <<>>, <<2>>, ("body" :> <<2>>)),
        Node("ClassDef", Points("A"), 2, 9, <<>>, <<Points("d")>>, <<3, 4, 5, 6, 7>>, ("bases" :> <<3>>) @@ ("body" :> <<4, 5, 6>>) @@ ("decorator_list" :> <<7>>)),
        Node("Name", Points("B"), 2, 2, Points("B"), <<>>, <<8>>, ("ctx" :> <<8>>)),
        Node("Expr", <<>>, 3, 3, <<>>, <<>>, <<9>>, ("value" :> <<9>>)),
        Node("AnnAssign", <<>>, 4, 4, <<>>, <<>>, <<10, 11, 12>>, ("target" :> <<10>>) @@ ("annotation" :> <<11>>) @@ ("value" :> <<12>>)),
        Node("AsyncFunctionDef", Points("m"), 5, 9, <<>>, <<>>, <<13, 14>>, ("args" :> <<13>>) @@ ("body" :> <<14>>)),
        Node("Name", Points("dec"), 1, 1, Points("dec"), <<>>, <<15>>, ("ctx" :> <<15>>)),
        Node("Load", <<>>, 0, 0, <<>>, <<>>, <<>>, <<>>),
        Node("Constant", <<>>, 3, 3, <<>>, <<>>, <<>>, <<>>),
        Node("Name", Points("n"), 4, 4, <<>>, <<>>, <<16>>, ("ctx" :> <<16>>)),
        Node("Name", Points("int"), 4, 4, Points("int"), <<>>, <<17>>, ("ctx" :> <<17>>)),
        Node("Constant", <<>>, 4, 4, <<>>, <<>>, <<>>, <<>>),
        Node("arguments", <<>>, 0, 0, <<>>, <<>>, <<18, 19, 20, 21, 22>>, ("posonlyargs" :> <<18, 19>>) @@ ("args" :> <<20>>) @@ ("defaults" :> <<21, 22>>)),
        Node("Try", <<>>, 6, 9, <<>>, <<>>, <<23, 24>>, ("body" :> <<23>>) @@ ("handlers" :> <<24>>)),
        Node("Load", <<>>, 0, 0, <<>>, <<>>, <<>>, <<>>),
        Node("Store", <<>>, 0, 0, <<>>, <<>>, <<>>, <<>>),
        Node("Load", <<>>, 0, 0, <<>>, <<>>, <<>>, <<>>),
        Node("arg", Points("self"), 5, 5, <<>>, <<>>, <<>>, <<>>),
        Node("arg", Points("k"), 5, 5, <<>>, <<>>, <<>>, <<>>),
        Node("arg", Points("j"), 5, 5, <<>>, <<>>, <<>>, <<>>),
        Node("Constant", <<>>, 5, 5, Points("1"), <<>>, <<>>, <<>>),
        Node("Constant", <<>>, 5, 5, Points("2"), <<>>, <<>>, <<>>),
        Node("Pass", <<>>, 7, 7, <<>>, <<>>, <<>>, <<>>),
        Node("ExceptHandler", <<>>, 8, 9, <<>>, <<>>, <<25, 26>>, ("type" :> <<25>>) @@ ("body" :> <<26>>)),
        Node("Name", Points("E"), 8, 8, <<>>, <<>>, <<27>>, ("ctx" :> <<27>>)),
        Node("Pass", <<>>, 9, 9, <<>>, <<>>, <<>>, <<>>),
        Node("Load", <<>>, 0, 0, <<>>, <<>>, <<>>, <<>>)>>])
    @@
    (Points("import { a } from 'm';\nasync function f(a, b) {\n  if (a && b) { return 1; }\n}\nconst g = (x) => {\n};\nclass C extends D {\n}\n") :>
      [raised |-> "SyntaxError", lineno |-> <<1>>, msg |-> Points("invalid syntax")])
    @@
    (Points("import java.util.List;\npublic class A extends B implements C, D {\n  public static int f(int a, String b) throws E {\n    if (a > 0) { }\n  }\n}\n") :>
      [raised |-> "SyntaxError", lineno |-> <<2>>, msg |-> Points("invalid syntax")])
    @@
    (Points("function f( {\n  while (x) {\n") :>
      [raised |-> "SyntaxError", lineno |-> <<1>>, msg |-> Points("invalid syntax")])
    @@
    (Points("# c\n\n// d\n/* e\n * f\nx\n   \n") :>
      [raised |-> "SyntaxError", lineno |-> <<3>>, msg |-> Points("invalid syntax")])
    @@
    (Points("while x:\n    x = x or y or z\n") :>
      [raised |-> "", lineno |-> <<>>, msg |-> <<>>,
       tree |-> <<
        Node("Module", <<>>, 0, 0, <<>>, <<>>, <<2>>, ("body" :> <<2>>)),
        Node("While", <<>>, 1, 2, <<>>, <<>>, <<3, 4>>, ("test" :> <<3>>) @@ ("body" :> <<4>>)),
        Node("Name", Points("x"), 1, 1, <<>>, <<>>, <<5>>, ("ctx" :> <<5>>)),
        Node("Assign", <<>>, 2, 2, <<>>, <<>>, <<6, 7>>, ("targets" :> <<6>>) @@ ("value" :> <<7>>)),
        Node("Load", <<>>, 0, 0, <<>>, <<>>, <<>>, <<>>),
        Node("Name", Points("x"), 2, 2, <<>>, <<>>, <<8>>, ("ctx" :> <<8>>)),
        Node("BoolOp", <<>>, 2, 2, Points("x or y or z"), <<>>, <<9, 10, 11, 12>>, ("op" :> <<9>>) @@ ("values" :> <<10, 11, 12>>)),
        Node("Store", <<>>, 0, 0, <<>>, <<>>, <<>>, <<>>),
        Node("Or", <<>>, 0, 0, <<>>, <<>>, <<>>, <<>>),
        Node("Name", Points("x"), 2, 2, <<>>, <<>>, <<13>>, ("ctx" :> <<13>>)),
        Node("Name", Points("y"), 2, 2, <<>>, <<>>, <<14>>, ("ctx" :> <<14>>)),
        Node("Name", Points("z"), 2, 2, <<>>, <<>>, <<15>>, ("ctx" :> <<15>>)),
        Node("Load", <<>>, 0, 0, <<>>, <<>>, <<>>, <<>>),
        Node("Load", <<>>, 0, 0, <<>>, <<>>, <<>>, <<>>),
        Node("Load", <<>>, 0, 0, <<>>, <<>>, <<>>, <<>>)>>])
    @@
    (Points("??????????????????????????????????????????????????") :>
      [raised |-> "SyntaxError", lineno |-> <<1>>, msg |-> Points("invalid syntax")])
    @@
    (Points("x = a or a or a or a or a or a or a or a or a or a or a or a or a or a or a or a or a or a or a or a") :>
      [raised |-> "", lineno |-> <<>>, msg |-> <<>>,
       tree |-> <<
        Node("Module", <<>>, 0, 0, <<>>, <<>>, <<2>>, ("body" :> <<2>>)),
        Node("Assign", <<>>, 1, 1, <<>>, <<>>, <<3, 4>>, ("targets" :> <<3>>) @@ ("value" :> <<4>>)),
        Node("Name", Points("x"), 1, 1, <<>>, <<>>, <<5>>, ("ctx" :> <<5>>)),
        Node("BoolOp", <<>>, 1, 1, Points("a or a or a or a or a or a or a or a or a or a or a or a or a or a or a or a or a or a or a or a"), <<>>, <<6, 7, 8, 9, 10, 11, 12, 13, 14, 15, 16, 17, 18, 19, 20, 21, 22, 23, 24, 25, 26>>, ("op" :> <<6>>) @@ ("values" :> <<7, 8, 9, 10, 11, 12, 13, 14, 15, 16, 17, 18, 19, 20, 21, 22, 23, 24, 25, 26>>)),
        Node("Store", <<>>, 0, 0, <<>>, <<>>, <<>>, <<>>),
        Node("Or", <<>>, 0, 0, <<>>, <<>>, <<>>, <<>>),
        Node("Name", Points("a"), 1, 1, <<>>, <<>>, <<27>>, ("ctx" :> <<27>>)),
        Node("Name", Points("a"), 1, 1, <<>>, <<>>, <<28>>, ("ctx" :> <<28>>)),
        Node("Name", Points("a"), 1, 1, <<>>, <<>>, <<29>>, ("ctx" :> <<29>>)),
        Node("Name", Points("a"), 1, 1, <<>>, <<>>, <<30>>, ("ctx" :> <<30>>)),
        Node("Name", Points("a"), 1, 1, <<>>, <<>>, <<31>>, ("ctx" :> <<31>>)),
        Node("Name", Points("a"), 1, 1, <<>>, <<>>, <<32>>, ("ctx" :> <<32>>)),
        Node("Name", Points("a"), 1, 1, <<>>, <<>>, <<33>>, ("ctx" :> <<33>>)),
        Node("Name", Points("a"), 1, 1, <<>>, <<>>, <<34>>, ("ctx" :> <<34>>)),
        Node("Name", Points("a"), 1, 1, <<>>, <<>>, <<35>>, ("ctx" :> <<35>>)),
        Node("Name", Points("a"), 1, 1, <<>>, <<>>, <<36>>, ("ctx" :> <<36>>)),
        Node("Name", Points("a"), 1, 1, <<>>, <<>>, <<37>>, ("ctx" :> <<37>>)),
        Node("Name", Points("a"), 1, 1, <<>>, <<>>, <<38>>, ("ctx" :> <<38>>)),
        Node("Name", Points("a"), 1, 1, <<>>, <<>>, <<39>>, ("ctx" :> <<39>>)),
        Node("Name", Points("a"), 1, 1, <<>>, <<>>, <<40>>, ("ctx" :> <<40>>)),
        Node("Name", Points("a"), 1, 1, <<>>, <<>>, <<41>>, ("ctx" :> <<41>>)),
        Node("Name", Points("a"), 1, 1, <<>>, <<>>, <<42>>, ("ctx" :> <<42>>)),
        Node("Name", Points("a"), 1, 1, <<>>, <<>>, <<43>>, ("ctx" :> <<43>>)),
        Node("Name", Points("a"), 1, 1, <<>>, <<>>, <<44>>, ("ctx" :> <<44>>)),
        Node("Name", Points("a"), 1, 1, <<>>, <<>>, <<45>>, ("ctx" :> <<45>>)),
        Node("Name", Points("a"), 1, 1, <<>>, <<>>, <<46>>, ("ctx" :> <<46>>)),
        Node("Load", <<>>, 0, 0, <<>>, <<>>, <<>>, <<>>),
        Node("Load", <<>>, 0, 0, <<>>, <<>>, <<>>, <<>>),
        Node("Load", <<>>, 0, 0, <<>>, <<>>, <<>>, <<>>),
        Node("Load", <<>>, 0, 0, <<>>, <<>>, <<>>, <<>>),
        Node("Load", <<>>, 0, 0, <<>>, <<>>, <<>>, <<>>),
        Node("Load", <<>>, 0, 0, <<>>, <<>>, <<>>, <<>>),
        Node("Load", <<>>, 0, 0, <<>>, <<>>, <<>>, <<>>),
        Node("Load", <<>>, 0, 0, <<>>, <<>>, <<>>, <<>>),
        Node("Load", <<>>, 0, 0, <<>>, <<>>, <<>>, <<>>),
        Node("Load", <<>>, 0, 0, <<>>, <<>>, <<>>, <<>>),
        Node("Load", <<>>, 0, 0, <<>>, <<>>, <<>>, <<>>),
        Node("Load", <<>>, 0, 0, <<>>, <<>>, <<>>, <<>>),
        Node("Load", <<>>, 0, 0, <<>>, <<>>, <<>>, <<>>),
        Node("Load", <<>>, 0, 0, <<>>, <<>>, <<>>, <<>>),
        Node("Load", <<>>, 0, 0, <<>>, <<>>, <<>>, <<>>),
        Node("Load", <<>>, 0, 0, <<>>, <<>>, <<>>, <<>>),
        Node("Load", <<>>, 0, 0, <<>>, <<>>, <<>>, <<>>),
        Node("Load", <<>>, 0, 0, <<>>, <<>>, <<>>, <<>>),
        Node("Load", <<>>, 0, 0, <<>>, <<>>, <<>>, <<>>),
        Node("Load", <<>>, 0, 0, <<>>, <<>>, <<>>, <<>>)>>])
    @@
    (Points("if a:\n    x = a and b\n") :>
      [raised |-> "", lineno |-> <<>>, msg |-> <<>>,
       tree |-> <<
        Node("Module", <<>>, 0, 0, <<>>, <<>>, <<2>>, ("body" :> <<2>>)),
        Node("If", <<>>, 1, 2, <<>>, <<>>, <<3, 4>>, ("test" :> <<3>>) @@ ("body" :> <<4>>)),
        Node("Name", Points("a"), 1, 1, <<>>, <<>>, <<5>>, ("ctx" :> <<5>>)),
        Node("Assign", <<>>, 2, 2, <<>>, <<>>, <<6, 7>>, ("targets" :> <<6>>) @@ ("value" :> <<7>>)),
        Node("Load", <<>>, 0, 0, <<>>, <<>>, <<>>, <<>>),
        Node("Name", Points("x"), 2, 2, <<>>, <<>>, <<8>>, ("ctx" :> <<8>>)),
        Node("BoolOp", <<>>, 2, 2, Points("a and b"), <<>>, <<9, 10, 11>>, ("op" :> <<9>>) @@ ("values" :> <<10, 11>>)),
        Node("Store", <<>>, 0, 0, <<>>, <<>>, <<>>, <<>>),
        Node("And", <<>>, 0, 0, <<>>, <<>>, <<>>, <<>>),
        Node("Name", Points("a"), 2, 2, <<>>, <<>>, <<12>>, ("ctx" :> <<12>>)),
        Node("Name", Points("b"), 2, 2, <<>>, <<>>, <<13>>, ("ctx" :> <<13>>)),
        Node("Load", <<>>, 0, 0, <<>>, <<>>, <<>>, <<>>),
        Node("Load", <<>>, 0, 0, <<>>, <<>>, <<>>, <<>>)>>])
    @@
    (Points("while x:\n    if y:\n        x = x or y or z\n") :>
      [raised |-> "", lineno |-> <<>>, msg |-> <<>>,
       tree |-> <<
        Node("Module", <<>>, 0, 0, <<>>, <<>>, <<2>>, ("body" :> <<2>>)),
        Node("While", <<>>, 1, 3, <<>>, <<>>, <<3, 4>>, ("test" :> <<3>>) @@ ("body" :> <<4>>)),
        Node("Name", Points("x"), 1, 1, <<>>, <<>>, <<5>>, ("ctx" :> <<5>>)),
        Node("If", <<>>, 2, 3, <<>>, <<>>, <<6, 7>>, ("test" :> <<6>>) @@ ("body" :> <<7>>)),
        Node("Load", <<>>, 0, 0, <<>>, <<>>, <<>>, <<>>),
        Node("Name", Points("y"), 2, 2, <<>>, <<>>, <<8>>, ("ctx" :> <<8>>)),
        Node("Assign", <<>>, 3, 3, <<>>, <<>>, <<9, 10>>, ("targets" :> <<9>>) @@ ("value" :> <<10>>)),
        Node("Load", <<>>, 0, 0, <<>>, <<>>, <<>>, <<>>),
        Node("Name", Points("x"), 3, 3, <<>>, <<>>, <<11>>, ("ctx" :> <<11>>)),
        Node("BoolOp", <<>>, 3, 3, Points("x or y or z"), <<>>, <<12, 13, 14, 15>>, ("op" :> <<12>>) @@ ("values" :> <<13, 14, 15>>)),
        Node("Store", <<>>, 0, 0, <<>>, <<>>, <<>>, <<>>),
        Node("Or", <<>>, 0, 0, <<>>, <<>>, <<>>, <<>>),
        Node("Name", Points("x"), 3, 3, <<>>, <<>>, <<16>>, ("ctx" :> <<16>>)),
        Node("Name", Points("y"), 3, 3, <<>>, <<>>, <<17>>, ("ctx" :> <<17>>)),
        Node("Name", Points("z"), 3, 3, <<>>, <<>>, <<18>>, ("ctx" :> <<18>>)),
        Node("Load", <<>>, 0, 0, <<>>, <<>>, <<>>, <<>>),
        Node("Load", <<>>, 0, 0, <<>>, <<>>, <<>>, <<>>),
        Node("Load", <<>>, 0, 0, <<>>, <<>>, <<>>, <<>>)>>])
    @@
    (Points("x = a or a or a or a or a or a or a or a or a or a or a or a or a or a or a or a or a or a") :>
      [raised |-> "", lineno |-> <<>>, msg |-> <<>>,
       tree |-> <<
        Node("Module", <<>>, 0, 0, <<>>, <<>>, <<2>>, ("body" :> <<2>>)),
        Node("Assign", <<>>, 1, 1, <<>>, <<>>, <<3, 4>>, ("targets" :> <<3>>) @@ ("value" :> <<4>>)),
        Node("Name", Points("x"), 1, 1, <<>>, <<>>, <<5>>, ("ctx" :> <<5>>)),
        Node("BoolOp", <<>>, 1, 1, Points("a or a or a or a or a or a or a or a or a or a or a or a or a or a or a or a or a or a"), <<>>, <<6, 7, 8, 9, 10, 11, 12, 13, 14, 15, 16, 17, 18, 19, 20, 21, 22, 23, 24>>, ("op" :> <<6>>) @@ ("values" :> <<7, 8, 9, 10, 11, 12, 13, 14, 15, 16, 17, 18, 19, 20, 21, 22, 23, 24>>)),
        Node("Store", <<>>, 0, 0, <<>>, <<>>, <<>>, <<>>),
        Node("Or", <<>>, 0, 0, <<>>, <<>>, <<>>, <<>>),
        Node("Name", Points("a"), 1, 1, <<>>, <<>>, <<25>>, ("ctx" :> <<25>>)),
        Node("Name", Points("a"), 1, 1, <<>>, <<>>, <<26>>, ("ctx" :> <<26>>)),
        Node("Name", Points("a"), 1, 1, <<>>, <<>>, <<27>>, ("ctx" :> <<27>>)),
        Node("Name", Points("a"), 1, 1, <<>>, <<>>, <<28>>, ("ctx" :> <<28>>)),
        Node("Name", Points("a"), 1, 1, <<>>, <<>>, <<29>>, ("ctx" :> <<29>>)),
        Node("Name", Points("a"), 1, 1, <<>>, <<>>, <<30>>, ("ctx" :> <<30>>)),
        Node("Name", Points("a"), 1, 1, <<>>, <<>>, <<31>>, ("ctx" :> <<31>>)),
        Node("Name", Points("a"), 1, 1, <<>>, <<>>, <<32>>, ("ctx" :> <<32>>)),
        Node("Name", Points("a"), 1, 1, <<>>, <<>>, <<33>>, ("ctx" :> <<33>>)),
        Node("Name", Points("a"), 1, 1, <<>>, <<>>, <<34>>, ("ctx" :> <<34>>)),
        Node("Name", Points("a"), 1, 1, <<>>, <<>>, <<35>>, ("ctx" :> <<35>>)),
        Node("Name", Points("a"), 1, 1, <<>>, <<>>, <<36>>, ("ctx" :> <<36>>)),
        Node("Name", Points("a"), 1, 1, <<>>, <<>>, <<37>>, ("ctx" :> <<37>>)),
        Node("Name", Points("a"), 1, 1, <<>>, <<>>, <<38>>, ("ctx" :> <<38>>)),
        Node("Name", Points("a"), 1, 1, <<>>, <<>>, <<39>>, ("ctx" :> <<39>>)),
        Node("Name", Points("a"), 1, 1, <<>>, <<>>, <<40>>, ("ctx" :> <<40>>)),
        Node("Name", Points("a"), 1, 1, <<>>, <<>>, <<41>>, ("ctx" :> <<41>>)),
        Node("Name", Points("a"), 1, 1, <<>>, <<>>, <<42>>, ("ctx" :> <<42>>)),
        Node("Load", <<>>, 0, 0, <<>>, <<>>, <<>>, <<>>),
        Node("Load", <<>>, 0, 0, <<>>, <<>>, <<>>, <<>>),
        Node("Load", <<>>, 0, 0, <<>>, <<>>, <<>>, <<>>),
        Node("Load", <<>>, 0, 0, <<>>, <<>>, <<>>, <<>>),
        Node("Load", <<>>, 0, 0, <<>>, <<>>, <<>>, <<>>),
        Node("Load", <<>>, 0, 0, <<>>, <<>>, <<>>, <<>>),
        Node("Load", <<>>, 0, 0, <<>>, <<>>, <<>>, <<>>),
        Node("Load", <<>>, 0, 0, <<>>, <<>>, <<>>, <<>>),
        Node("Load", <<>>, 0, 0, <<>>, <<>>, <<>>, <<>>),
        Node("Load", <<>>, 0, 0, <<>>, <<>>, <<>>, <<>>),
        Node("Load", <<>>, 0, 0, <<>>, <<>>, <<>>, <<>>),
        Node("Load", <<>>, 0, 0, <<>>, <<>>, <<>>, <<>>),
        Node("Load", <<>>, 0, 0, <<>>, <<>>, <<>>, <<>>),
        Node("Load", <<>>, 0, 0, <<>>, <<>>, <<>>, <<>>),
        Node("Load", <<>>, 0, 0, <<>>, <<>>, <<>>, <<>>),
        Node("Load", <<>>, 0, 0, <<>>, <<>>, <<>>, <<>>),
        Node("Load", <<>>, 0, 0, <<>>, <<>>, <<>>, <<>>),
        Node("Load", <<>>, 0, 0, <<>>, <<>>, <<>>, <<>>)>>])
    @@
    (Points("if a:\n    x = a or a or a or a or a or a or a or a or a or a or a or a or a or a or a or a or a or a") :>
      [raised |-> "", lineno |-> <<>>, msg |-> <<>>,
       tree |-> <<
        Node("Module", <<>>, 0, 0, <<>>, <<>>, <<2>>, ("body" :> <<2>>)),
        Node("If", <<>>, 1, 2, <<>>, <<>>, <<3, 4>>, ("test" :> <<3>>) @@ ("body" :> <<4>>)),
        Node("Name", Points("a"), 1, 1, <<>>, <<>>, <<5>>, ("ctx" :> <<5>>)),
        Node("Assign", <<>>, 2, 2, <<>>, <<>>, <<6, 7>>, ("targets" :> <<6>>) @@ ("value" :> <<7>>)),
        Node("Load", <<>>, 0, 0, <<>>, <<>>, <<>>, <<>>),
        Node("Name", Points("x"), 2, 2, <<>>, <<>>, <<8>>, ("ctx" :> <<8>>)),
        Node("BoolOp", <<>>, 2, 2, Points("a or a or a or a or a or a or a or a or a or a or a or a or a or a or a or a or a or a"), <<>>, <<9, 10, 11, 12, 13, 14, 15, 16, 17, 18, 19, 20, 21, 22, 23, 24, 25, 26, 27>>, ("op" :> <<9>>) @@ ("values" :> <<10, 11, 12, 13, 14, 15, 16, 17, 18, 19, 20, 21, 22, 23, 24, 25, 26, 27>>)),
        Node("Store", <<>>, 0, 0, <<>>, <<>>, <<>>, <<>>),
        Node("Or", <<>>, 0, 0, <<>>, <<>>, <<>>, <<>>),
        Node("Name", Points("a"), 2, 2, <<>>, <<>>, <<28>>, ("ctx" :> <<28>>)),
        Node("Name", Points("a"), 2, 2, <<>>, <<>>, <<29>>, ("ctx" :> <<29>>)),
        Node("Name", Points("a"), 2, 2, <<>>, <<>>, <<30>>, ("ctx" :> <<30>>)),
        Node("Name", Points("a"), 2, 2, <<>>, <<>>, <<31>>, ("ctx" :> <<31>>)),
        Node("Name", Points("a"), 2, 2, <<>>, <<>>, <<32>>, ("ctx" :> <<32>>)),
        Node("Name", Points("a"), 2, 2, <<>>, <<>>, <<33>>, ("ctx" :> <<33>>)),
        Node("Name", Points("a"), 2, 2, <<>>, <<>>, <<34>>, ("ctx" :> <<34>>)),
        Node("Name", Points("a"), 2, 2, <<>>, <<>>, <<35>>, ("ctx" :> <<35>>)),
        Node("Name", Points("a"), 2, 2, <<>>, <<>>, <<36>>, ("ctx" :> <<36>>)),
        Node("Name", Points("a"), 2, 2, <<>>, <<>>, <<37>>, ("ctx" :> <<37>>)),
        Node("Name", Points("a"), 2, 2, <<>>, <<>>, <<38>>, ("ctx" :> <<38>>)),
        Node("Name", Points("a"), 2, 2, <<>>, <<>>, <<39>>, ("ctx" :> <<39>>)),
        Node("Name", Points("a"), 2, 2, <<>>, <<>>, <<40>>, ("ctx" :> <<40>>)),
        Node("Name", Points("a"), 2, 2, <<>>, <<>>, <<41>>, ("ctx" :> <<41>>)),
        Node("Name", Points("a"), 2, 2, <<>>, <<>>, <<42>>, ("ctx" :> <<42>>)),
        Node("Name", Points("a"), 2, 2, <<>>, <<>>, <<43>>, ("ctx" :> <<43>>)),
        Node("Name", Points("a"), 2, 2, <<>>, <<>>, <<44>>, ("ctx" :> <<44>>)),
        Node("Name", Points("a"), 2, 2, <<>>, <<>>, <<45>>, ("ctx" :> <<45>>)),
        Node("Load", <<>>, 0, 0, <<>>, <<>>, <<>>, <<>>),
        Node("Load", <<>>, 0, 0, <<>>, <<>>, <<>>, <<>>),
        Node("Load", <<>>, 0, 0, <<>>, <<>>, <<>>, <<>>),
        Node("Load", <<>>, 0, 0, <<>>, <<>>, <<>>, <<>>),
        Node("Load", <<>>, 0, 0, <<>>, <<>>, <<>>, <<>>),
        Node("Load", <<>>, 0, 0, <<>>, <<>>, <<>>, <<>>),
        Node("Load", <<>>, 0, 0, <<>>, <<>>, <<>>, <<>>),
        Node("Load", <<>>, 0, 0, <<>>, <<>>, <<>>, <<>>),
        Node("Load", <<>>, 0, 0, <<>>, <<>>, <<>>, <<>>),
        Node("Load", <<>>, 0, 0, <<>>, <<>>, <<>>, <<>>),
        Node("Load", <<>>, 0, 0, <<>>, <<>>, <<>>, <<>>),
        Node("Load", <<>>, 0, 0, <<>>, <<>>, <<>>, <<>>),
        Node("Load", <<>>, 0, 0, <<>>, <<>>, <<>>, <<>>),
        Node("Load", <<>>, 0, 0, <<>>, <<>>, <<>>, <<>>),
        Node("Load", <<>>, 0, 0, <<>>, <<>>, <<>>, <<>>),
        Node("Load", <<>>, 0, 0, <<>>, <<>>, <<>>, <<>>),
        Node("Load", <<>>, 0, 0, <<>>, <<>>, <<>>, <<>>),
        Node("Load", <<>>, 0, 0, <<>>, <<>>, <<>>, <<>>)>>])
    @@
    (Points("if a:\n    if a:\n        x = a or a or a or a or a or a or a or a or a or a or a or a or a or a or a or a or a or a") :>
      [raised |-> "", lineno |-> <<>>, msg |-> <<>>,
       tree |-> <<
        Node("Module", <<>>, 0, 0, <<>>, <<>>, <<2>>, ("body" :> <<2>>)),
        Node("If", <<>>, 1, 3, <<>>, <<>>, <<3, 4>>, ("test" :> <<3>>) @@ ("body" :> <<4>>)),
        Node("Name", Points("a"), 1, 1, <<>>, <<>>, <<5>>, ("ctx" :> <<5>>)),
        Node("If", <<>>, 2, 3, <<>>, <<>>, <<6, 7>>, ("test" :> <<6>>) @@ ("body" :> <<7>>)),
        Node("Load", <<>>, 0, 0, <<>>, <<>>, <<>>, <<>>),
        Node("Name", Points("a"), 2, 2, <<>>, <<>>, <<8>>, ("ctx" :> <<8>>)),
        Node("Assign", <<>>, 3, 3, <<>>, <<>>, <<9, 10>>, ("targets" :> <<9>>) @@ ("value" :> <<10>>)),
        Node("Load", <<>>, 0, 0, <<>>, <<>>, <<>>, <<>>),
        Node("Name", Points("x"), 3, 3, <<>>, <<>>, <<11>>, ("ctx" :> <<11>>)),
        Node("BoolOp", <<>>, 3, 3, Points("a or a or a or a or a or a or a or a or a or a or a or a or a or a or a or a or a or a"), <<>>, <<12, 13, 14, 15, 16, 17, 18, 19, 20, 21, 22, 23, 24, 25, 26, 27, 28, 29, 30>>, ("op" :> <<12>>) @@ ("values" :> <<13, 14, 15, 16, 17, 18, 19, 20, 21, 22, 23, 24, 25, 26, 27, 28, 29, 30>>)),
        Node("Store", <<>>, 0, 0, <<>>, <<>>, <<>>, <<>>),
        Node("Or", <<>>, 0, 0, <<>>, <<>>, <<>>, <<>>),
        Node("Name", Points("a"), 3, 3, <<>>, <<>>, <<31>>, ("ctx" :> <<31>>)),
        Node("Name", Points("a"), 3, 3, <<>>, <<>>, <<32>>, ("ctx" :> <<32>>)),
        Node("Name", Points("a"), 3, 3, <<>>, <<>>, <<33>>, ("ctx" :> <<33>>)),
        Node("Name", Points("a"), 3, 3, <<>>, <<>>, <<34>>, ("ctx" :> <<34>>)),
        Node("Name", Points("a"), 3, 3, <<>>, <<>>, <<35>>, ("ctx" :> <<35>>)),
        Node("Name", Points("a"), 3, 3, <<>>, <<>>, <<36>>, ("ctx" :> <<36>>)),
        Node("Name", Points("a"), 3, 3, <<>>, <<>>, <<37>>, ("ctx" :> <<37>>)),
        Node("Name", Points("a"), 3, 3, <<>>, <<>>, <<38>>, ("ctx" :> <<38>>)),
        Node("Name", Points("a"), 3, 3, <<>>, <<>>, <<39>>, ("ctx" :> <<39>>)),
        Node("Name", Points("a"), 3, 3, <<>>, <<>>, <<40>>, ("ctx" :> <<40>>)),
        Node("Name", Points("a"), 3, 3, <<>>, <<>>, <<41>>, ("ctx" :> <<41>>)),
        Node("Name", Points("a"), 3, 3, <<>>, <<>>, <<42>>, ("ctx" :> <<42>>)),
        Node("Name", Points("a"), 3, 3, <<>>, <<>>, <<43>>, ("ctx" :> <<43>>)),
        Node("Name", Points("a"), 3, 3, <<>>, <<>>, <<44>>, ("ctx" :> <<44>>)),
        Node("Name", Points("a"), 3, 3, <<>>, <<>>, <<45>>, ("ctx" :> <<45>>)),
        Node("Name", Points("a"), 3, 3, <<>>, <<>>, <<46>>, ("ctx" :> <<46>>)),
        Node("Name", Points("a"), 3, 3, <<>>, <<>>, <<47>>, ("ctx" :> <<47>>)),
        Node("Name", Points("a"), 3, 3, <<>>, <<>>, <<48>>, ("ctx" :> <<48>>)),
        Node("Load", <<>>, 0, 0, <<>>, <<>>, <<>>, <<>>),
        Node("Load", <<>>, 0, 0, <<>>, <<>>, <<>>, <<>>),
        Node("Load", <<>>, 0, 0, <<>>, <<>>, <<>>, <<>>),
        Node("Load", <<>>, 0, 0, <<>>, <<>>, <<>>, <<>>),
        Node("Load", <<>>, 0, 0, <<>>, <<>>, <<>>, <<>>),
        Node("Load", <<>>, 0, 0, <<>>, <<>>, <<>>, <<>>),
        Node("Load", <<>>, 0, 0, <<>>, <<>>, <<>>, <<>>),
        Node("Load", <<>>, 0, 0, <<>>, <<>>, <<>>, <<>>),
        Node("Load", <<>>, 0, 0, <<>>, <<>>, <<>>, <<>>),
        Node("Load", <<>>, 0, 0, <<>>, <<>>, <<>>, <<>>),
        Node("Load", <<>>, 0, 0, <<>>, <<>>, <<>>, <<>>),
        Node("Load", <<>>, 0, 0, <<>>, <<>>, <<>>, <<>>),
        Node("Load", <<>>, 0, 0, <<>>, <<>>, <<>>, <<>>),
        Node("Load", <<>>, 0, 0, <<>>, <<>>, <<>>, <<>>),
        Node("Load", <<>>, 0, 0, <<>>, <<>>, <<>>, <<>>),
        Node("Load", <<>>, 0, 0, <<>>, <<>>, <<>>, <<>>),
        Node("Load", <<>>, 0, 0, <<>>, <<>>, <<>>, <<>>),
        Node("Load", <<>>, 0, 0, <<>>, <<>>, <<>>, <<>>)>>])
    @@
    (Points("import os\ndef g():\n    if os: pass\ndef f(a=1, /): pass\n") :>
      [raised |-> "", lineno |-> <<>>, msg |-> <<>>,
       tree |-> <<
        Node("Module", <<>>, 0, 0, <<>>, <<>>, <<2, 3, 4>>, ("body" :> <<2, 3, 4>>)),
        Node("Import", <<>>, 1, 1, <<>>, <<>>, <<5>>, ("names" :> <<5>>)),
        Node("FunctionDef", Points("g"), 2, 3, <<>>, <<>>, <<6, 7>>, ("args" :> <<6>>) @@ ("body" :> <<7>>)),
        Node("FunctionDef", Points("f"), 4, 4, <<>>, <<>>, <<8, 9>>, ("args" :> <<8>>) @@ ("body" :> <<9>>)),
        Node("alias", Points("os"), 1, 1, <<>>, <<>>, <<>>, <<>>),
        Node("arguments", <<>>, 0, 0, <<>>, <<>>, <<>>, <<>>),
        Node("If", <<>>, 3, 3, <<>>, <<>>, <<10, 11>>, ("test" :> <<10>>) @@ ("body" :> <<11>>)),
        Node("arguments", <<>>, 0, 0, <<>>, <<>>, <<12, 13>>, ("posonlyargs" :> <<12>>) @@ ("defaults" :> <<13>>)),
        Node("Pass", <<>>, 4, 4, <<>>, <<>>, <<>>, <<>>),
        Node("Name", Points("os"), 3, 3, <<>>, <<>>, <<14>>, ("ctx" :> <<14>>)),
        Node("Pass", <<>>, 3, 3, <<>>, <<>>, <<>>, <<>>),
        Node("arg", Points("a"), 4, 4, <<>>, <<>>, <<>>, <<>>),
        Node("Constant", <<>>, 4, 4, Points("1"), <<>>, <<>>, <<>>),
        Node("Load", <<>>, 0, 0, <<>>, <<>>, <<>>, <<>>)>>])
    @@
    (Points("\nfunction f(a) {\n  while (x) {\n") :>
      [raised |-> "SyntaxError", lineno |-> <<2>>, msg |-> Points("invalid syntax")])
    @@
    (Points("const g = function (a)\n  return a;\nlet h = (x) => x + 1;\n") :>
      [raised |-> "SyntaxError", lineno |-> <<1>>, msg |-> Points("invalid syntax")])
    @@
    (Points("var k = (x) => x;\nif (y) {\n}\n") :>
      [raised |-> "SyntaxError", lineno |-> <<1>>, msg |-> Points("invalid syntax")])
    @@
    (Points("def f():\n    import a\nimport b\nimport a\n") :>
      [raised |-> "", lineno |-> <<>>, msg |-> <<>>,
       tree |-> <<
        Node("Module", <<>>, 0, 0, <<>>, <<>>, <<2, 3, 4>>, ("body" :> <<2, 3, 4>>)),
        Node("FunctionDef", Points("f"), 1, 2, <<>>, <<>>, <<5, 6>>, ("args" :> <<5>>) @@ ("body" :> <<6>>)),
        Node("Import", <<>>, 3, 3, <<>>, <<>>, <<7>>, ("names" :> <<7>>)),
        Node("Import", <<>>, 4, 4, <<>>, <<>>, <<8>>, ("names" :> <<8>>)),
        Node("arguments", <<>>, 0, 0, <<>>, <<>>, <<>>, <<>>),
        Node("Import", <<>>, 2, 2, <<>>, <<>>, <<9>>, ("names" :> <<9>>)),
        Node("alias", Points("b"), 3, 3, <<>>, <<>>, <<>>, <<>>),
        Node("alias", Points("a"), 4, 4, <<>>, <<>>, <<>>, <<>>),
        Node("alias", Points("a"), 2, 2, <<>>, <<>>, <<>>, <<>>)>>])
    @@
    (Points("x = a ? b : c ? b : c ? b : c ? b : c ? b : c ? b : c ? b : c ? b : c ? b : c ? b : c ? b : c ? b : c && d || e && d || e && d || e && d || e && d || e && d || e && d || e && d || e && d || e && d || e && d || e && d || e && d || e && d || e && d || e && d || e && d || e && d || e && d || e && d || e && d || e && d || e && d || e && d || e ;") :>
      [raised |-> "SyntaxError", lineno |-> <<1>>, msg |-> Points("invalid syntax")])
    @@
    (Points("import os\ndef g(): pass\nclass A:\n    x = (\n") :>
      [raised |-> "SyntaxError", lineno |-> <<4>>, msg |-> Points("'(' was never closed")])
    @@
    (Points("x = 1") \o <<0>> :>
      [raised |-> "SyntaxError", lineno |-> <<>>, msg |-> Points("source code string cannot contain null bytes")])
    @@
    (Points("except:") :>
      [raised |-> "SyntaxError", lineno |-> <<1>>, msg |-> Points("invalid syntax")])
    @@
    (Points("def f(p):\n    eval(p)\n") :>
      [raised |-> "", lineno |-> <<>>, msg |-> <<>>,
       tree |-> <<
        Node("Module", <<>>, 0, 0, <<>>, <<>>, <<2>>, ("body" :> <<2>>)),
        Node("FunctionDef", Points("f"), 1, 2, <<>>, <<>>, <<3, 4>>, ("args" :> <<3>>) @@ ("body" :> <<4>>)),
        Node("arguments", <<>>, 0, 0, <<>>, <<>>, <<5>>, ("args" :> <<5>>)),
        Node("Expr", <<>>, 2, 2, <<>>, <<>>, <<6>>, ("value" :> <<6>>)),
        Node("arg", Points("p"), 1, 1, <<>>, <<>>, <<>>, <<>>),
        Node("Call", <<>>, 2, 2, <<>>, <<>>, <<7, 8>>, ("func" :> <<7>>) @@ ("args" :> <<8>>)),
        Node("Name", Points("eval"), 2, 2, <<>>, <<>>, <<9>>, ("ctx" :> <<9>>)),
        Node("Name", Points("p"), 2, 2, <<>>, <<>>, <<10>>, ("ctx" :> <<10>>)),
        Node("Load", <<>>, 0, 0, <<>>, <<>>, <<>>, <<>>),
        Node("Load", <<>>, 0, 0, <<>>, <<>>, <<>>, <<>>)>>])
    @@
    (Points("def f():\n    pass\n") :>
      [raised |-> "", lineno |-> <<>>, msg |-> <<>>,
       tree |-> <<
        Node("Module", <<>>, 0, 0, <<>>, <<>>, <<2>>, ("body" :> <<2>>)),
        Node("FunctionDef", Points("f"), 1, 2, <<>>, <<>>, <<3, 4>>, ("args" :> <<3>>) @@ ("body" :> <<4>>)),
        Node("arguments", <<>>, 0, 0, <<>>, <<>>, <<>>, <<>>),
        Node("Pass", <<>>, 2, 2, <<>>, <<>>, <<>>, <<>>)>>])


\* what one top-level node adds to the three lists
Added(functions, classes, global_vars) ==
    [functions |-> functions, classes |-> classes, global_vars |-> global_vars]

\* the global variables an assignment adds: one for each target that is a name
GlobalVars(tree, node) ==
    Each(SelectSeq(Field(tree, node, "targets"), LAMBDA target : target.type = "Name"),
         LAMBDA target : [name |-> target.name, line |-> node.lineno,
                          value |-> Field(tree, node, "value")[1].text])

\* the body of the loop over the top-level nodes
TopLevel(tree, node, lines) ==
    CASE IsFunction(node) ->
           Then(_extract_python_function(tree, node, lines, None),
                LAMBDA func_info : Added(<<func_info>>, <<>>, <<>>))
      [] node.type = "ClassDef" ->
           Then(_extract_python_class(tree, node, lines),
                LAMBDA class_info : Added(<<>>, <<class_info>>, <<>>))
      [] node.type = "Assign" -> Return(Added(<<>>, <<>>, GlobalVars(tree, node)))
      [] OTHER -> Return(Added(<<>>, <<>>, <<>>))

\* the result once the loop over the top-level nodes has ended: what was
\* added before an exception stays in the lists
PythonResult(tree, added, raised) ==
    ParseResult(Points("python"),
                Flatten(Each(added, LAMBDA a : a.functions)),
                Flatten(Each(added, LAMBDA a : a.classes)),
                Flatten(Each(AstWalk(tree, <<1>>), LAMBDA n : ImportsOf(tree, n))),
                Flatten(Each(added, LAMBDA a : a.global_vars)),
                IF raised # None THEN <<Points("Parse error: ") \o raised[1]>> ELSE <<>>,
                IF raised # None THEN 0 ELSE _calculate_complexity(tree))

PythonLoop(tree, results, at) ==
    PythonResult(tree, ReturnedBefore(results, at), RaisedFirst(results, at))

PythonTree(tree, results) == PythonLoop(tree, results, RaisedAt(results))

\* _parse_python, given what ast.parse(code) answers
ParsePythonWith(code, answer) ==
    CASE answer.raised = "SyntaxError" ->
           ParseResult(Points("python"), <<>>, <<>>, <<>>, <<>>,
                       <<Points("Syntax error at line ")
                           \o (IF answer.lineno = None THEN Points("None")
                               ELSE Digits(answer.lineno[1]))
                           \o Points(": ") \o answer.msg>>,
                       0)
      [] answer.raised = "Exception" ->
           ParseResult(Points("python"), <<>>, <<>>, <<>>, <<>>,
                       <<Points("Parse error: ") \o answer.msg>>, 0)
      [] OTHER ->
           PythonTree(answer.tree,
                      Each(Field(answer.tree, answer.tree[1], "body"),
                           LAMBDA node : TopLevel(answer.tree, node, SplitLines(code))))

_parse_python(code) == ParsePythonWith(code, ast_parse[code])

\* the parser self.parsers holds for the text `language`
ParserNamed(language) == parsers[CHOOSE key \in DOMAIN parsers : Points(key) = language]

\* self.parsers[language](code), or the fallback
ParseAs(code, language) ==
    IF \E key \in DOMAIN parsers : Points(key) = language
    THEN CASE ParserNamed(language) = "_parse_python" -> _parse_python(code)
           [] ParserNamed(language) = "_parse_javascript" -> _parse_javascript(code)
           [] ParserNamed(language) = "_parse_java" -> _parse_java(code)
    ELSE _parse_generic(code, language)

\* language = language.lower(), then the dispatch
parse(code, language) == ParseAs(code, Lower(language))

_avg_function_length(functions) ==
    IF functions = <<>> THEN DFromRatio[0, 1]
    ELSE DFromRatio[Sum(Each(functions, LAMBDA f : f.end_line - f.start_line + 1)),
                    Len(functions)]

IsBlank(line) == Strip(line) = <<>>

\* stripped.startswith(('#', '//', '/*', '*'))
CommentPrefixes == {Points(p) : p \in {"#", "//", "/*", "*"}}

IsComment(line) == \E prefix \in CommentPrefixes : StartsWith(Strip(line), prefix)

\* the returned dict, from the line counts and the parse result
CodeMetrics(total_lines, blank_lines, comment_lines, parse_result) ==
    [total_lines |-> total_lines,
     code_lines |-> total_lines - blank_lines - comment_lines,
     blank_lines |-> blank_lines,
     comment_lines |-> comment_lines,
     functions_count |-> Len(parse_result.functions),
     classes_count |-> Len(parse_result.classes),
     imports_count |-> Len(parse_result.imports),
     complexity_score |-> parse_result.complexity_score,
     avg_function_length |-> IF parse_result.functions # <<>>
                             THEN _avg_function_length(parse_result.functions)
                             ELSE DFromRatio[0, 1]]

LinesMetrics(lines, parse_result) ==
    CodeMetrics(Len(lines), Len(SelectSeq(lines, IsBlank)),
                Len(SelectSeq(lines, IsComment)), parse_result)

get_code_metrics(code, language) == LinesMetrics(SplitLines(code), parse(code, language))

(***************************************************************************)
(* The inputs the analyses are run on.                                     *)
(***************************************************************************)
CodeSamples ==
    <<<<>>,
      Points("except:"),
      Points("except:\n    pass\n"),
      Points("x = 1"),
      Points("password = 'abc'  # TODO"),
      Points("# TODO\nEval (x)\n# todo"),
      Points("var a = 1;\nif (a == null) { eval(a); }"),
      Points("catch (Throwable t) {\n  // FIXME\n}"),
      Points("                    if a and b or c and d or e: pass"),
      Points("                   a\n                        b\n\t\t\t\t\t\t\t\t\t\t\t\t\t\t\t\t\t\t\t\tc\n                       \n                d"),
      Points("                    except:"),
      Points("from os import *\nprint(1)\nprint(1)\nprint(1)\nprint(1)\nprint(1)\nprint(1)\nprint(1)\ntime.sleep(10)\n'{}'.format(a)"),
      Points("x = 1\n# 𰂀𰂀𰂀𰂀𰂀𰂀𰂀𰂀𰂀𰂀------------------------------------------------------------------------------------------------------------\n# 𰂿----------------------------------------------------------------------------------------------------------------------")>>

\* analyze takes any string as its language tag (agents/tools.py passes the
\* caller's string through)
Languages ==
    Each(<<"python", "javascript", "java", "general", "go", "typescript", "PYTHON">>, Points)

Requests == (1..Len(CodeSamples)) \X (1..Len(Languages))

\* Scan over the inputs above, computed once
Scanned ==
    SubSeq([i \in 1..Len(CodeSamples) |->
               SubSeq([j \in 1..Len(Languages) |-> Scan(CodeSamples[i], Languages[j])],
                      1, Len(Languages))],
           1, Len(CodeSamples))

\* what the fitted vectorizer and forest can answer for one text
Answer(raised, votes) == [raised |-> raised, votes |-> votes]

AllAnswers == {Answer(TRUE, 0)} \cup {Answer(FALSE, k) : k \in 0..NEstimators}

\* the answers the call sequences are explored with
SomeAnswers == {Answer(TRUE, 0)} \cup {Answer(FALSE, k) : k \in {0, 70, 100}}

\* the texts and tags the call sequences are explored with
SomeRequests == {q \in Requests : q[1] \in {2, 5} /\ q[2] \in {1, 4, 5}}

\* calls made on one instance in one explored sequence
MaxCalls == 3

(***************************************************************************)
(* The calls the parser is run on.                                         *)
(***************************************************************************)
ParserSamples ==
    <<<<>>,
      Points("x = a and b\n"),
      Points("import os\nfrom . import x\nfrom a.b import c, d\nx = 1\ny, z = 2, 3\nx = y = os\n"),
      Points("def f(a, b: int = 2) -> str:\n    'doc'\n    if a and b or a:\n        return a\n    for i in a:\n        pass\n"),
      Points("import os\ndef g(): pass\ndef f(a=1, /): pass\n"),
      Points("def f(:\n"),
      Points("@dec\nclass A(B):\n    'd'\n    n: int = 0\n    async def m(self, k=1, /, j=2):\n        try:\n            pass\n        except E:\n            pass\n"),
      Points("import { a } from 'm';\nasync function f(a, b) {\n  if (a && b) { return 1; }\n}\nconst g = (x) => {\n};\nclass C extends D {\n}\n"),
      Points("import java.util.List;\npublic class A extends B implements C, D {\n  public static int f(int a, String b) throws E {\n    if (a > 0) { }\n  }\n}\n"),
      Points("function f( {\n  while (x) {\n"),
      Points("# c\n\n// d\n/* e\n * f\nx\n   \n"),
      Points("while x:\n    x = x or y or z\n"),
      Points("??????????????????????????????????????????????????"),
      Points("x = a or a or a or a or a or a or a or a or a or a or a or a or a or a or a or a or a or a or a or a"),
      Points("if a:\n    x = a and b\n"),
      Points("while x:\n    if y:\n        x = x or y or z\n"),
      Points("x = a or a or a or a or a or a or a or a or a or a or a or a or a or a or a or a or a or a"),
      Points("if a:\n    x = a or a or a or a or a or a or a or a or a or a or a or a or a or a or a or a or a or a"),
      Points("if a:\n    if a:\n        x = a or a or a or a or a or a or a or a or a or a or a or a or a or a or a or a or a or a"),
      Points("import os\ndef g():\n    if os: pass\ndef f(a=1, /): pass\n"),
      Points("\nfunction f(a) {\n  while (x) {\n"),
      Points("const g = function (a)\n  return a;\nlet h = (x) => x + 1;\n"),
      Points("var k = (x) => x;\nif (y) {\n}\n"),
      Points("def f():\n    import a\nimport b\nimport a\n"),
      Points("x = a ? b : c ? b : c ? b : c ? b : c ? b : c ? b : c ? b : c ? b : c ? b : c ? b : c ? b : c ? b : c && d || e && d || e && d || e && d || e && d || e && d || e && d || e && d || e && d || e && d || e && d || e && d || e && d || e && d || e && d || e && d || e && d || e && d || e && d || e && d || e && d || e && d || e && d || e && d || e ;"),
      Points("import os\ndef g(): pass\nclass A:\n    x = (\n"),
      Points("x = 1") \o <<0>>>>

ParserLanguages ==
    Each(<<"python", "PYTHON", "javascript", "TypeScript", "java", "go", "Rust", "">>, Points)

ParserRequests == (1..Len(ParserSamples)) \X (1..Len(ParserLanguages))

\* parse over the inputs above, computed once
Parsed ==
    SubSeq([i \in 1..Len(ParserSamples) |->
               SubSeq([j \in 1..Len(ParserLanguages) |->
                          parse(ParserSamples[i], ParserLanguages[j])],
                      1, Len(ParserLanguages))],
           1, Len(ParserSamples))

\* get_code_metrics over the inputs above, computed once
Measured ==
    SubSeq([i \in 1..Len(ParserSamples) |->
               SubSeq([j \in 1..Len(ParserLanguages) |->
                          get_code_metrics(ParserSamples[i], ParserLanguages[j])],
                      1, Len(ParserLanguages))],
           1, Len(ParserSamples))

(***************************************************************************)
(* One DefectClassifier instance.                                          *)
(*   _is_trained  the flag __init__ leaves behind                          *)
(*   forest       the fitted vectorizer and forest, as the answers they    *)
(*                have given: text index -> answer.  Fitting fixes the     *)
(*                answer for every text; which answers it fixed is learnt  *)
(*                as texts are classified.                                 *)
(*   request      the arguments of the latest analyze call                 *)
(*   prediction   its return value (a sequence of at most one)             *)
(*   history      the analyze calls made so far, in order: the request     *)
(*                and the DefectPrediction returned                        *)
(*   calls        the number of analyze calls made                         *)
(***************************************************************************)
VARIABLES _is_trained, forest, request, prediction, history, calls

classifier_vars == <<_is_trained, forest, request, prediction, history, calls>>

(***************************************************************************)
(* The CodeParser instance keeps nothing between calls.                    *)
(*   parser_call      the latest call: the method and the positions of    *)
(*                    its arguments in ParserSamples and ParserLanguages   *)
(*   parser_returned  its return value (a sequence of at most one)         *)
(***************************************************************************)
VARIABLES parser_call, parser_returned

parser_vars == <<parser_call, parser_returned>>

(***************************************************************************)
(* The two module-level instances (defect_classifier, code_parser) and the *)
(* request threads that call them.                                         *)
(*   lifecycle  how far the import of each service module has come         *)
(*              ("unborn", "constructed", "bound"), the number of          *)
(*              _initialize_training runs, and the latest step taken: who  *)
(*              took it (the import or a request thread) and the instance  *)
(*              attributes its code assigns                                *)
(*   threads    per request thread: its position in the call it is making, *)
(*              the call's arguments, its locals and its return value      *)
(***************************************************************************)
VARIABLES lifecycle, threads

concurrent_vars == <<lifecycle, threads>>

(***************************************************************************)
(* One get_severity_summary call.                                          *)
(*   summary_call  the list the caller passed as it was at the call        *)
(*                 (given), the list as it is now (sections), and the      *)
(*                 return value (a sequence of at most one)                *)
(***************************************************************************)
VARIABLES summary_call

(***************************************************************************)
(* A DefectClassifier from its construction on.                            *)
(*   catalog_call  self.anti_patterns as __init__ assigned it (a sequence  *)
(*                 of at most one), whether __init__ has returned the      *)
(*                 instance, the arguments of the analyze call made on it  *)
(*                 and what the call raised or returned                    *)
(***************************************************************************)
VARIABLES catalog_call

(***************************************************************************)
(* One _find_matching_brace call.                                          *)
(*   brace_call  the arguments (code, start) and the returned pair (a      *)
(*               sequence of at most one)                                  *)
(***************************************************************************)
VARIABLES brace_call

(***************************************************************************)
(* The POST /api/review requests on the event loop.                        *)
(*   review_call  for each request its body (code, language), how far it   *)
(*                has run, what analyze returned, the LLM's output and     *)
(*                the response (sequences of at most one)                  *)
(***************************************************************************)
VARIABLES review_call

\* an except branch that gives the forest up: self._is_trained = False
FlagAfterFailure(trained, outcome) == trained /\ ~outcome.raised

\* self._is_trained after _ml_classify has run: the method assigns no
\* attribute, whatever the forest answers
FlagAfter(trained, outcome) == trained

\* self.classifier.predict_proba(self.vectorizer.transform([code])): the
\* fitted objects are not written by analyze, so a text classified before
\* gets the answer it got then
ForestAnswer(fitted, text, fresh) ==
    IF text \in DOMAIN fitted THEN fitted[text] ELSE fresh

Remember(fitted, text, answer) ==
    IF text \in DOMAIN fitted THEN fitted ELSE fitted @@ (text :> answer)

\* analyze(CodeSamples[i], Languages[j]); `fresh` is the answer of the forest
\* if this is the first time it sees the text
Analyze(i, j, fresh) ==
    /\ prediction' = <<PredictFrom(Scanned[i][j], _is_trained,
                                   ForestAnswer(forest, i, fresh))>>
    /\ forest' = IF _is_trained
                 THEN Remember(forest, i, ForestAnswer(forest, i, fresh))
                 ELSE forest
    /\ _is_trained' = FlagAfter(_is_trained, ForestAnswer(forest, i, fresh))
    /\ history' = Append(history, [request |-> <<i, j>>, returned |-> prediction'[1]])
    /\ request' = <<i, j>>
    /\ calls' = calls + 1
    /\ UNCHANGED <<parser_vars, concurrent_vars, summary_call, catalog_call, brace_call, review_call>>

\* code_parser.parse(ParserSamples[i], ParserLanguages[j])
Parse(i, j) ==
    /\ parser_call' = [op |-> "parse", code |-> i, language |-> j]
    /\ parser_returned' = <<Parsed[i][j]>>
    /\ UNCHANGED <<classifier_vars, concurrent_vars, summary_call, catalog_call, brace_call, review_call>>

\* code_parser.get_code_metrics(ParserSamples[i], ParserLanguages[j])
GetCodeMetrics(i, j) ==
    /\ parser_call' = [op |-> "get_code_metrics", code |-> i, language |-> j]
    /\ parser_returned' = <<Measured[i][j]>>
    /\ UNCHANGED <<classifier_vars, concurrent_vars, summary_call, catalog_call, brace_call, review_call>>

vars == <<classifier_vars, parser_vars, concurrent_vars, summary_call, catalog_call,
          brace_call, review_call>>

\* no request to /api/review
NoReviewCall == review_call = <<>>

\* no _find_matching_brace call of its own
NoBraceCall == brace_call = [code |-> <<>>, start |-> 0, returned |-> <<>>]

\* no instance with a catalog of its own
NoCatalogCall ==
    catalog_call = [catalog |-> <<>>, built |-> FALSE, code |-> 0, language |-> 0,
                    outcome |-> <<>>]

\* no get_severity_summary call made
NoSummaryCall == summary_call = [given |-> <<>>, sections |-> <<>>, returned |-> <<>>]

\* request threads
NThreads == 2

Threads == 1..NThreads

\* a step: who took it and the instance attributes it assigned
StepBy(who, wrote) == [by |-> who, wrote |-> wrote]

\* a thread that is in no call
Idle ==
    [pc |-> "idle", op |-> "", code |-> 0, language |-> 0,
     found |-> <<>>, ml |-> <<>>, returned |-> <<>>]

\* both modules imported, no request being served
ServicesUp ==
    /\ lifecycle = [classifier |-> "bound", parser |-> "bound", trainings |-> 1,
                    step |-> StepBy("import", {})]
    /\ threads = [t \in Threads |-> Idle]
    /\ NoSummaryCall
    /\ NoCatalogCall
    /\ NoBraceCall
    /\ NoReviewCall

\* after DefectClassifier(): training either succeeded or fell back
ClassifierInit ==
    /\ _is_trained \in BOOLEAN
    /\ forest = <<>>
    /\ request = <<0, 0>>
    /\ prediction = <<>>
    /\ history = <<>>
    /\ calls = 0

\* after CodeParser(): no call made
ParserInit ==
    /\ parser_call = [op |-> "", code |-> 0, language |-> 0]
    /\ parser_returned = <<>>

Init == ClassifierInit /\ ParserInit /\ ServicesUp

\* any sequence of analyze calls on the instance
Next ==
    \E q \in SomeRequests, fresh \in SomeAnswers :
        calls < MaxCalls /\ Analyze(q[1], q[2], fresh)

Spec == Init /\ [][Next]_vars

\* analyze as a function of its inputs: one call on an instance whose forest
\* gives the requested text any of its possible answers
InitAnalyze ==
    /\ _is_trained \in BOOLEAN
    /\ request \in Requests
    /\ forest \in (IF _is_trained THEN {request[1] :> a : a \in AllAnswers} ELSE {<<>>})
    /\ prediction = <<>>
    /\ history = <<>>
    /\ calls = 0
    /\ ParserInit
    /\ ServicesUp

\* the forest's answer for the requested text is in `forest` from the start,
\* and an untrained instance does not ask for one
NextAnalyze ==
    calls = 0 /\ Analyze(request[1], request[2], Answer(TRUE, 0))

SpecAnalyze == InitAnalyze /\ [][NextAnalyze]_vars

\* any sequence of calls of the parser
NextParser ==
    \E q \in ParserRequests : Parse(q[1], q[2]) \/ GetCodeMetrics(q[1], q[2])

SpecParser == Init /\ [][NextParser]_vars

(***************************************************************************)
(* Import of the service modules, then request threads calling the shared  *)
(* instances.  A call is a sequence of steps; between two steps of one     *)
(* thread any other thread may take steps.                                 *)
(***************************************************************************)
\* an instance can be called once the module-level name is assigned
BoundEarly(phase) == phase # "unborn"

Bound(phase) == phase = "bound"

\* DefectClassifier.__init__ up to the call of _initialize_training
ConstructClassifier ==
    /\ lifecycle.classifier = "unborn"
    /\ _is_trained' = FALSE
    /\ lifecycle' = [lifecycle EXCEPT
                       !.classifier = "constructed",
                       !.step = StepBy("import", {"vectorizer", "classifier", "_is_trained",
                                           "anti_patterns", "code_smells"})]
    /\ UNCHANGED <<forest, request, prediction, history, calls, parser_vars, threads, summary_call, catalog_call, brace_call, review_call>>

\* _initialize_training, then __init__ returns and the module assigns
\* defect_classifier; `fitted` is whether fit_transform and fit went through
TrainClassifier(fitted) ==
    /\ lifecycle.classifier = "constructed"
    /\ _is_trained' = fitted
    /\ lifecycle' = [lifecycle EXCEPT
                       !.classifier = "bound",
                       !.trainings = @ + 1,
                       !.step = StepBy("import", {"vectorizer", "classifier", "_is_trained"})]
    /\ UNCHANGED <<forest, request, prediction, history, calls, parser_vars, threads, summary_call, catalog_call, brace_call, review_call>>

\* code_parser = CodeParser()
ConstructParser ==
    /\ lifecycle.parser = "unborn"
    /\ lifecycle' = [lifecycle EXCEPT !.parser = "bound", !.step = StepBy("import", {"parsers"})]
    /\ UNCHANGED <<classifier_vars, parser_vars, threads, summary_call, catalog_call, brace_call, review_call>>

\* thread t enters a call
Entered(t, op, i, j) ==
    [pc |-> "entered", op |-> op, code |-> i, language |-> j,
     found |-> <<>>, ml |-> <<>>, returned |-> <<>>]

\* thread t returns `value` from the call it is in
Returned(call, value) == [call EXCEPT !.pc = "done", !.returned = <<value>>]

\* analyze, lines 235-257: the rule loop and the smells; both read the
\* instance's catalog and thresholds and fill locals
AnalyzeScan(t, i, j) ==
    /\ Bound(lifecycle.classifier)
    /\ threads[t].pc \in {"idle", "done"}
    /\ threads' = [threads EXCEPT ![t] =
                      [Entered(t, "analyze", i, j) EXCEPT
                          !.pc = "scanned", !.found = <<Scanned[i][j]>>]]
    /\ lifecycle' = [lifecycle EXCEPT !.step = StepBy("request", {})]
    /\ UNCHANGED <<classifier_vars, parser_vars, summary_call, catalog_call, brace_call, review_call>>

\* analyze, line 260: _ml_classify reads _is_trained and asks the forest
AnalyzeClassify(t, fresh) ==
    /\ threads[t].pc = "scanned"
    /\ threads' = [threads EXCEPT
                      ![t].pc = "classified",
                      ![t].ml = <<_ml_classify(_is_trained,
                                               ForestAnswer(forest, threads[t].code, fresh))>>]
    /\ forest' = IF _is_trained
                 THEN Remember(forest, threads[t].code,
                               ForestAnswer(forest, threads[t].code, fresh))
                 ELSE forest
    /\ _is_trained' = FlagAfter(_is_trained, ForestAnswer(forest, threads[t].code, fresh))
    /\ lifecycle' = [lifecycle EXCEPT !.step = StepBy("request", {})]
    /\ UNCHANGED <<request, prediction, history, calls, parser_vars, summary_call, catalog_call, brace_call, review_call>>

\* analyze, lines 263-290: the scores, and _is_trained read again for the
\* confidence
AnalyzeReturn(t) ==
    /\ threads[t].pc = "classified"
    /\ threads' = [threads EXCEPT ![t] =
                      Returned(threads[t],
                               DefectPrediction(RiskScore(threads[t].found[1].flagged,
                                                          threads[t].ml[1]),
                                                threads[t].found[1].flagged,
                                                _is_trained,
                                                threads[t].found[1].issues))]
    /\ lifecycle' = [lifecycle EXCEPT !.step = StepBy("request", {})]
    /\ UNCHANGED <<classifier_vars, parser_vars, summary_call, catalog_call, brace_call, review_call>>

\* get_severity_summary on the sections analyze flags for CodeSamples[i]
SeveritySummary(t, i, j) ==
    /\ Bound(lifecycle.classifier)
    /\ threads[t].pc \in {"idle", "done"}
    /\ threads' = [threads EXCEPT ![t] =
                      Returned(Entered(t, "get_severity_summary", i, j),
                               get_severity_summary(Scanned[i][j].flagged))]
    /\ lifecycle' = [lifecycle EXCEPT !.step = StepBy("request", {})]
    /\ UNCHANGED <<classifier_vars, parser_vars, summary_call, catalog_call, brace_call, review_call>>

\* code_parser.parse
ThreadParse(t, i, j) ==
    /\ Bound(lifecycle.parser)
    /\ threads[t].pc \in {"idle", "done"}
    /\ threads' = [threads EXCEPT ![t] = Returned(Entered(t, "parse", i, j), Parsed[i][j])]
    /\ lifecycle' = [lifecycle EXCEPT !.step = StepBy("request", {})]
    /\ UNCHANGED <<classifier_vars, parser_vars, summary_call, catalog_call, brace_call, review_call>>

\* code_parser.get_code_metrics
ThreadMetrics(t, i, j) ==
    /\ Bound(lifecycle.parser)
    /\ threads[t].pc \in {"idle", "done"}
    /\ threads' = [threads EXCEPT ![t] =
                      Returned(Entered(t, "get_code_metrics", i, j), Measured[i][j])]
    /\ lifecycle' = [lifecycle EXCEPT !.step = StepBy("request", {})]
    /\ UNCHANGED <<classifier_vars, parser_vars, summary_call, catalog_call, brace_call, review_call>>

\* the calls the threads make
ThreadRequests == {<<3, 1>>, <<5, 4>>}

ThreadParserRequests == {<<8, 3>>}

ThreadAnswers == {Answer(TRUE, 0), Answer(FALSE, 70)}

\* before either service module is imported
InitConcurrent ==
    /\ _is_trained = FALSE
    /\ forest = <<>>
    /\ request = <<0, 0>>
    /\ prediction = <<>>
    /\ history = <<>>
    /\ calls = 0
    /\ ParserInit
    /\ lifecycle = [classifier |-> "unborn", parser |-> "unborn", trainings |-> 0,
                    step |-> StepBy("import", {})]
    /\ threads = [t \in Threads |-> Idle]
    /\ NoSummaryCall
    /\ NoCatalogCall
    /\ NoBraceCall
    /\ NoReviewCall

NextConcurrent ==
    \/ ConstructClassifier
    \/ \E fitted \in BOOLEAN : TrainClassifier(fitted)
    \/ ConstructParser
    \/ \E t \in Threads :
          \/ \E q \in ThreadRequests : AnalyzeScan(t, q[1], q[2])
          \/ \E fresh \in ThreadAnswers : AnalyzeClassify(t, fresh)
          \/ AnalyzeReturn(t)
          \/ \E q \in ThreadRequests : SeveritySummary(t, q[1], q[2])
          \/ \E q \in ThreadParserRequests : ThreadParse(t, q[1], q[2])
          \/ \E q \in ThreadParserRequests : ThreadMetrics(t, q[1], q[2])

SpecConcurrent == InitConcurrent /\ [][NextConcurrent]_vars

(***************************************************************************)
(* Properties of analyze.                                                  *)
(***************************************************************************)
\* the answer the forest gave for the text of the latest call
GivenAnswer == forest[request[1]]

\* whether the latest call took the neutral constant instead of the forest
NeutralPath == ~_is_trained \/ GivenAnswer.raised

\* C1: the returned risk_score lies in [0.0, 1.0] and risk_level is the level
\* the 0.7 / 0.4 thresholds give for that returned, rounded score
C1_LevelAgreesWithReturnedScore ==
    \A k \in 1..Len(prediction) :
        LET made == prediction[k] IN
        /\ DGe[made.risk_score, Lit00]
        /\ DGe[Lit10, made.risk_score]
        /\ (made.risk_level = "high") = DGe[made.risk_score, Lit07]
        /\ (made.risk_level = "medium") =
               (DGe[made.risk_score, Lit04] /\ ~DGe[made.risk_score, Lit07])
        /\ (made.risk_level = "low") = ~DGe[made.risk_score, Lit04]

\* the severity weights in tenths
TenthsOf(sev) ==
    CASE sev = "error" -> 10 [] sev = "security" -> 9 [] sev = "warning" -> 5
      [] sev = "info" -> 2 [] sev = "suggestion" -> 1

\* C2: risk_score is clamp(0.4 * ml + 0.6 * min(1.0, sum of weights / 5), 0, 1)
\* rounded to 3 decimals.  With ml = k / 100 and the weights in tenths summing
\* to W the exact value is (4 k + min(600, 12 W)) / 1000, already a whole
\* number of thousandths, so the returned float is the float nearest to it.
C2_RiskScoreFormula ==
    \A n \in 1..Len(prediction) :
        LET made == prediction[n]
            W    == Sum([i \in 1..Len(made.flagged_sections) |->
                            TenthsOf(made.flagged_sections[i].severity)])
            k    == IF NeutralPath THEN 50 ELSE GivenAnswer.votes
            part == IF 12 * W < 600 THEN 12 * W ELSE 600
        IN  made.risk_score = DFromRatio[4 * k + part, 1000]

\* a trained forest with a 70 : 30 vote on a text with several findings
C2_Witness ==
    /\ prediction # <<>>
    /\ Len(prediction[1].flagged_sections) >= 2
    /\ ~NeutralPath
    /\ GivenAnswer.votes = 70

\* what _ml_classify returned in the latest call
MlScore == IF NeutralPath THEN Lit05 ELSE VoteShare[GivenAnswer.votes]

\* C15: analyze of the empty string flags nothing, whatever the language
\* tag; and whenever nothing is flagged the pattern score is 0 and the
\* risk_score is round(0.4 * ml, 3), ml being what the classifier gave.
C15_NoMatchScoreIsClassifierShare ==
    \A n \in 1..Len(prediction) :
        /\ CodeSamples[request[1]] = <<>> => prediction[n].flagged_sections = <<>>
        /\ prediction[n].flagged_sections = <<>>
             => /\ PatternScore(prediction[n].flagged_sections) = Lit00
                /\ prediction[n].risk_score = Round3[DMul[Lit04, MlScore]]

\* analyze("", "go") has returned on a trained instance whose forest voted
\* 70 : 30
C15_Witness ==
    /\ prediction # <<>>
    /\ CodeSamples[request[1]] = <<>>
    /\ Languages[request[2]] = Points("go")
    /\ ~NeutralPath
    /\ GivenAnswer.votes = 70
    /\ prediction[1].risk_score = DFromRatio[28, 100]

\* the latest call is analyze("except:\n    pass\n", "python")
BareExceptCall ==
    /\ prediction # <<>>
    /\ CodeSamples[request[1]] = Points("except:\n    pass\n")
    /\ Languages[request[2]] = Points("python")

\* C16: analyze("except:\n    pass\n", "python") flags line 1 with severity
\* error by the bare-except rule and line 2 with severity info by the bare
\* pass rule, and its pattern score is above 0.
C16_BareExceptAndPassFlagged ==
    BareExceptCall
    => /\ \E k \in 1..Len(prediction[1].flagged_sections) :
              /\ prediction[1].flagged_sections[k].severity = "error"
              /\ prediction[1].flagged_sections[k].line = 1
              /\ prediction[1].flagged_sections[k].issue
                    = "Bare except clause catches all exceptions"
       /\ \E k \in 1..Len(prediction[1].flagged_sections) :
              /\ prediction[1].flagged_sections[k].severity = "info"
              /\ prediction[1].flagged_sections[k].line = 2
              /\ prediction[1].flagged_sections[k].issue = "Empty block with pass"
       /\ PatternScore(prediction[1].flagged_sections) # Lit00
       /\ DGe[PatternScore(prediction[1].flagged_sections), Lit00]

\* the call has returned, with the two sections and nothing else
C16_Witness ==
    /\ BareExceptCall
    /\ Len(prediction[1].flagged_sections) = 2
    /\ PatternScore(prediction[1].flagged_sections) = DFromRatio[24, 100]


\* code.split('\n') of each sample
SampleLines == Each(CodeSamples, SplitLines)

\* the lines of the code of the latest call
RequestLines == SampleLines[request[1]]

\* the number of whitespace characters a line begins with
LeadingWidth(line) ==
    SetMax({k \in 0..Len(line) : \A c \in 1..k : line[c] \in SpacePoints})

\* the deep-nesting issue of line n of the code of the latest call
DeepNestingIssue(n) ==
    "Line " \o ToString(n) \o ": Deep nesting level (> 4) (level "
      \o ToString(LeadingWidth(RequestLines[n]) \div 4) \o ")"

\* the issues analyze reported for line n that speak of deep nesting
NestingReports(n) ==
    {k \in 1..Len(prediction[1].issues_detected) :
        /\ StartsWith(Points(prediction[1].issues_detected[k]),
                      Points("Line " \o ToString(n) \o ":"))
        /\ Contains(Points(prediction[1].issues_detected[k]), Points("Deep nesting"))}

\* C17: a line gets a deep-nesting issue exactly when it begins with 20 or
\* more whitespace characters (floor(width / 4) > 4), never with 19 or
\* fewer, and the issue names the level floor(width / 4).
C17_DeepNestingFromTwentyBlanks ==
    prediction # <<>>
    => \A n \in 1..Len(RequestLines) :
           /\ (NestingReports(n) # {})
                = (LeadingWidth(RequestLines[n]) >= 20)
           /\ \A k \in NestingReports(n) :
                  prediction[1].issues_detected[k] = DeepNestingIssue(n)

\* the text with lines of 19, 24, 20, 23 and 16 leading whitespace characters
\* has been analyzed: level 6 reported for the second line
C17_Witness ==
    /\ prediction # <<>>
    /\ Len(RequestLines) = 5
    /\ LeadingWidth(RequestLines[1]) = 19
    /\ LeadingWidth(RequestLines[2]) = 24
    /\ NestingReports(1) = {}
    /\ \E k \in NestingReports(2) :
           prediction[1].issues_detected[k] = "Line 2: Deep nesting level (> 4) (level 6)"

\* the rules the claim has applied on a call: those tagged with the language
\* and those tagged general, each once
RuleSet(language) ==
    {RulesFor(language)[r] : r \in 1..Len(RulesFor(language))}
      \cup {RulesFor(Points("general"))[r] : r \in 1..Len(RulesFor(Points("general")))}

\* for each input, the (pattern, line) pairs where a rule of the set matches
Matching ==
    SubSeq([i \in 1..Len(CodeSamples) |->
               SubSeq([j \in 1..Len(Languages) |->
                          LET lines == SplitLines(CodeSamples[i])
                          IN  {<<rule.pattern, n>> :
                                  <<rule, n>> \in {h \in RuleSet(Languages[j]) \X (1..Len(lines)) :
                                                     RuleMatches(h[1], lines[h[2]])}}],
                      1, Len(Languages))],
           1, Len(CodeSamples))

\* C3: one flagged section for each (rule, line) pair where an applied rule
\* matches the line, and no other section
C3_OneSectionPerMatch ==
    \A n \in 1..Len(prediction) :
        LET sections == prediction[n].flagged_sections
            expected == Matching[request[1]][request[2]]
            Emitted(h) == {i \in 1..Len(sections) :
                              sections[i].pattern = h[1] /\ sections[i].line = h[2]}
        IN  /\ \A h \in expected : Cardinality(Emitted(h)) = 1
            /\ \A i \in 1..Len(sections) :
                   <<sections[i].pattern, sections[i].line>> \in expected

\* the place of a rule in catalog order: the language's rules, then general
CatalogRank(language, pattern) ==
    SetMin({r \in 1..Len(AppliedPatterns(language)) :
               AppliedPatterns(language)[r].pattern = pattern})

\* C9: sections come rule-major in catalog order and by ascending line within
\* one rule
C9_RuleMajorOrder ==
    \A n \in 1..Len(prediction) :
        LET sections == prediction[n].flagged_sections
            Rank(i)  == CatalogRank(Languages[request[2]], sections[i].pattern)
        IN  \A i \in 1..(Len(sections) - 1) :
                \/ Rank(i) < Rank(i + 1)
                \/ Rank(i) = Rank(i + 1) /\ sections[i].line < sections[i + 1].line

\* C7: a prediction made with the neutral constant reports confidence 0.5,
\* and confidence 0.8 means the forest's probability was used
C7_ConfidenceTracksPath ==
    \A n \in 1..Len(prediction) :
        /\ NeutralPath => prediction[n].confidence = Lit05
        /\ prediction[n].confidence = Lit08 => ~NeutralPath

\* C10: any two analyze calls made on the instance with the same (code,
\* language) returned the same flagged sections in the same order, the same
\* risk_score and the same risk_level, whatever was called before and between
\* them
C10_SameInputSameResult ==
    \A a, b \in 1..Len(history) :
        history[a].request = history[b].request
        => /\ history[a].returned.flagged_sections = history[b].returned.flagged_sections
           /\ history[a].returned.risk_score = history[b].returned.risk_score
           /\ history[a].returned.risk_level = history[b].returned.risk_level

\* on a trained instance the first call is repeated as the third, after a
\* call with another text for which the forest raised
C10_Witness ==
    /\ Len(history) = 3
    /\ _is_trained
    /\ history[1].request = history[3].request
    /\ history[2].request[1] # history[1].request[1]
    /\ forest[history[2].request[1]].raised
    /\ ~forest[history[1].request[1]].raised
    /\ history[3].returned.flagged_sections # <<>>

\* C19: every flagged section analyze returns has a line number within the
\* lines of the input, the stripped text of that line as its code, one of the
\* five severities, and the pattern of a rule applied for the call's language.
C19_SectionsDescribeTheirLine ==
    \A n \in 1..Len(prediction) :
        \A k \in 1..Len(prediction[n].flagged_sections) :
            /\ prediction[n].flagged_sections[k].line
                  \in 1..Len(RequestLines)
            /\ prediction[n].flagged_sections[k].code
                  = Strip(RequestLines
                              [prediction[n].flagged_sections[k].line])
            /\ prediction[n].flagged_sections[k].severity
                  \in {"error", "security", "warning", "info", "suggestion"}
            /\ \E rule \in RuleSet(Languages[request[2]]) :
                  rule.pattern = prediction[n].flagged_sections[k].pattern

\* a java call has flagged the indented second of three lines by a general
\* rule
C19_Witness ==
    /\ prediction # <<>>
    /\ Languages[request[2]] = Points("java")
    /\ Len(RequestLines) = 3
    /\ \E k \in 1..Len(prediction[1].flagged_sections) :
          /\ prediction[1].flagged_sections[k].line = 2
          /\ prediction[1].flagged_sections[k].code = Points("// FIXME")
          /\ \E r \in 1..Len(RulesFor(Points("general"))) :
                RulesFor(Points("general"))[r].pattern = prediction[1].flagged_sections[k].pattern


\* the smell findings the lines call for: one per line longer than 120
\* characters, one per line nested deeper than 4 levels, one per line with
\* more than 3 boolean operators
SmellFindings ==
    Cardinality({n \in 1..Len(RequestLines) : Len(RequestLines[n]) > 120})
      + Cardinality({n \in 1..Len(RequestLines) : LeadingWidth(RequestLines[n]) \div 4 > 4})
      + Cardinality({n \in 1..Len(RequestLines) :
                        ReFindallCount(ComplexPattern, RequestLines[n], TRUE) > 3})

\* C26: the issues start with one summary per flagged section, in order, and
\* the smell findings follow; the smells add no flagged section and leave
\* risk_score and risk_level what the flagged sections and the classifier
\* make them, so len(issues_detected) = len(flagged_sections) + the number of
\* smell findings.
C26_SmellsOnlyExtendIssues ==
    \A n \in 1..Len(prediction) :
        LET flagged == prediction[n].flagged_sections
            issues == prediction[n].issues_detected
        IN  /\ Len(issues) = Len(flagged) + SmellFindings
            /\ \A k \in 1..Len(flagged) :
                   issues[k] = "Line " \o ToString(flagged[k].line) \o ": " \o flagged[k].issue
            /\ \A k \in (Len(flagged) + 1)..Len(issues) :
                   \/ Contains(Points(issues[k]), Points(code_smells.long_line.text))
                   \/ Contains(Points(issues[k]), Points(code_smells.deep_nesting.text))
                   \/ Contains(Points(issues[k]), Points(code_smells.complex_condition.text))
            /\ flagged = ScanFlagged(AppliedPatterns(Languages[request[2]]), RequestLines)
            /\ prediction[n].risk_score = Round3[RiskScore(flagged, MlScore)]
            /\ prediction[n].risk_level = RiskLevel(RiskScore(flagged, MlScore))

\* the bare except nested five levels deep has been analyzed as python: one
\* flagged section, two issues, the score of the bare except alone
C26_Witness ==
    /\ prediction # <<>>
    /\ CodeSamples[request[1]] = Points("                    except:")
    /\ Languages[request[2]] = Points("python")
    /\ NeutralPath
    /\ Len(prediction[1].flagged_sections) = 1
    /\ prediction[1].issues_detected
          = <<"Line 1: Bare except clause catches all exceptions",
              "Line 1: Deep nesting level (> 4) (level 5)">>
    /\ prediction[1].risk_score = DFromRatio[32, 100]

\* C27: whatever the language tag, no two flagged sections of one
\* DefectPrediction have the same line and the same rule pattern: each rule is
\* applied once per line, so no finding enters the pattern score twice.
C27_NoSectionTwice ==
    \A n \in 1..Len(prediction) :
        \A k, l \in 1..Len(prediction[n].flagged_sections) :
            (/\ prediction[n].flagged_sections[k].line = prediction[n].flagged_sections[l].line
             /\ prediction[n].flagged_sections[k].pattern
                   = prediction[n].flagged_sections[l].pattern)
            => k = l

\* the language whose extractor parse selects for a tag
ExtractorLanguage(tag) ==
    CASE ParserNamed(Lower(tag)) = "_parse_python" -> Points("python")
      [] ParserNamed(Lower(tag)) = "_parse_javascript" -> Points("javascript")
      [] ParserNamed(Lower(tag)) = "_parse_java" -> Points("java")

\* C28: whenever parse selects the python, javascript or java extractor for
\* a language tag (lower-casing it, typescript taken as javascript), analyze
\* called with that tag applies the rule list of that language and then the
\* general rules.
C28_AnalyzeDispatchesAsParse ==
    \A n \in 1..Len(prediction) :
        (\E key \in DOMAIN parsers : Points(key) = Lower(Languages[request[2]]))
        => prediction[n].flagged_sections
             = ScanFlagged(RulesFor(ExtractorLanguage(Languages[request[2]]))
                             \o RulesFor(Points("general")),
                           RequestLines)

\* low < medium < high
LevelRank(level) == CASE level = "low" -> 1 [] level = "medium" -> 2 [] level = "high" -> 3

\* a flagged section of the given severity appended to the sections
WithOneMore(flagged, sev) == Append(flagged, [severity |-> sev])

\* the score and the level do not fall from the sections `fewer` to the
\* sections `more`, the classifier's probability being ml
NotLowered(fewer, more, ml) ==
    LET before == RiskScore(fewer, ml)
        after == RiskScore(more, ml)
    IN  /\ DGe[after, before]
        /\ DGe[Round3[after], Round3[before]]
        /\ LevelRank(RiskLevel(after)) >= LevelRank(RiskLevel(before))

\* C30: for a fixed classifier probability, appending a flagged section
\* never lowers risk_score nor the risk_level; with no flagged section
\* risk_score <= 0.4 and the level is not high; and the level is high only
\* when pattern_score >= 0.5.
C30_RiskMonotoneInSections ==
    \A n \in 1..Len(prediction) :
        LET flagged == prediction[n].flagged_sections
        IN  /\ \A k \in 1..Len(flagged) :
                   NotLowered(SubSeq(flagged, 1, k - 1), SubSeq(flagged, 1, k), MlScore)
            /\ \A sev \in Severities : NotLowered(flagged, WithOneMore(flagged, sev), MlScore)
            /\ flagged = <<>> => /\ DGe[Lit04, prediction[n].risk_score]
                                 /\ prediction[n].risk_level # "high"
            /\ prediction[n].risk_level = "high" => DGe[PatternScore(flagged), Lit05]

(***************************************************************************)
(* The parser's calls.                                                     *)
(***************************************************************************)
CalledCode == ParserSamples[parser_call.code]

\* the language tag of the call, as parse reads it
CalledLanguage == Lower(ParserLanguages[parser_call.language])

ParseReturned == parser_call.op = "parse"

\* the tags parse has an extractor for
SupportedTags == {Points("python"), Points("javascript"), Points("typescript"), Points("java")}

MetricsReturned == parser_call.op = "get_code_metrics"

\* 1 + the conditional, loop and handler nodes + N-1 for each boolean
\* combination of N operands, over all the nodes of the tree
ClaimedRaw(tree) ==
    1 + Cardinality({k \in 1..Len(tree) :
                        tree[k].type \in {"If", "While", "For", "ExceptHandler"}})
      + Sum([k \in 1..Len(tree) |->
                IF tree[k].type = "BoolOp" THEN Len(tree[k].f["values"]) - 1 ELSE 0])

\* C4: for python code that parses, the complexity score is min(100, 5 * raw)
\* with raw = 1 + (number of conditional, loop and exception-handler nodes of
\* the whole tree) + (N-1 for every boolean combination of N operands).
C4_ComplexityCountsOperandsLessOne ==
    (/\ ParseReturned
     /\ CalledLanguage = Points("python")
     /\ ast_parse[CalledCode].raised = ""
     /\ parser_returned[1].errors = <<>>)
    => parser_returned[1].complexity_score
         = Min(100, 5 * ClaimedRaw(ast_parse[CalledCode].tree))

\* the call is on code with a syntax failure: the tag selects the Python
\* extractor and ast.parse raises SyntaxError for the code.  The JavaScript
\* and Java extractors build no tree and fail on no code.
SyntaxFailure ==
    /\ CalledLanguage = Points("python")
    /\ ast_parse[CalledCode].raised = "SyntaxError"

\* the text is "Syntax error at line N: message" for a line N of the code
\* (or the one after its last) and a message of at least one character
LineAndMessage(error, code) ==
    \E n \in 1..(Len(SplitLines(code)) + 1) :
        /\ StartsWith(error, Points("Syntax error at line ") \o Digits(n) \o Points(": "))
        /\ Len(error) > Len(Points("Syntax error at line ") \o Digits(n) \o Points(": "))

\* C5: when parse is called for a supported language on code with a syntax
\* failure, the call returns a result whose errors hold a line-and-message
\* diagnostic, with complexity_score 0 and empty functions and classes.
C5_SyntaxFailureLeavesNothing ==
    (ParseReturned /\ SyntaxFailure)
    => /\ parser_returned[1].errors # <<>>
       /\ \E k \in 1..Len(parser_returned[1].errors) :
              LineAndMessage(parser_returned[1].errors[k], CalledCode)
       /\ parser_returned[1].complexity_score = 0
       /\ parser_returned[1].functions = <<>>
       /\ parser_returned[1].classes = <<>>

\* C6: for a language tag that, lower-cased, is none of python, javascript,
\* typescript and java, parse returns exactly one error, which names the
\* language, empty functions, classes, imports and global variables, and the
\* heuristic complexity score of the code.
C6_UnsupportedLanguageFallsBack ==
    (ParseReturned /\ CalledLanguage \notin SupportedTags)
    => /\ Len(parser_returned[1].errors) = 1
       /\ Contains(parser_returned[1].errors[1], CalledLanguage)
       /\ parser_returned[1].functions = <<>>
       /\ parser_returned[1].classes = <<>>
       /\ parser_returned[1].imports = <<>>
       /\ parser_returned[1].global_variables = <<>>
       /\ parser_returned[1].complexity_score = _estimate_complexity(CalledCode)

\* parse("?" * 50, "Rust") has returned, with the capped heuristic score
C6_Witness ==
    /\ ParseReturned
    /\ ParserLanguages[parser_call.language] = Points("Rust")
    /\ parser_returned[1].language = Points("rust")
    /\ parser_returned[1].errors # <<>>
    /\ parser_returned[1].complexity_score = 100

\* C8: get_code_metrics returns code_lines + blank_lines + comment_lines =
\* total_lines with the four counts non-negative, and for the empty string
\* the four counts are zero.
C8_LineCountsAddUp ==
    MetricsReturned
    => /\ parser_returned[1].code_lines + parser_returned[1].blank_lines
            + parser_returned[1].comment_lines = parser_returned[1].total_lines
       /\ parser_returned[1].code_lines >= 0
       /\ parser_returned[1].blank_lines >= 0
       /\ parser_returned[1].comment_lines >= 0
       /\ parser_returned[1].total_lines >= 0
       /\ (CalledCode = <<>>
             => /\ parser_returned[1].total_lines = 0
                /\ parser_returned[1].code_lines = 0
                /\ parser_returned[1].blank_lines = 0
                /\ parser_returned[1].comment_lines = 0)


\* <<i, j>>: ParserSamples[j] is ParserSamples[i] with one more conditional
\* construct (an if around or inside the code that was there)
OneMoreConditional == {<<2, 15>>, <<12, 16>>, <<17, 18>>, <<18, 19>>, <<5, 20>>}

\* C13: parse of a python snippet scores at least what it scores for the
\* snippet without its latest conditional construct, also where the score
\* has reached 100.
C13_ConditionalNeverLowersScore ==
    (ParseReturned /\ CalledLanguage = Points("python"))
    => \A pair \in OneMoreConditional :
           pair[2] = parser_call.code
           => parser_returned[1].complexity_score
                >= Parsed[pair[1]][parser_call.language].complexity_score

\* the snippet of score 100 has got one more conditional and has been parsed
C13_Witness ==
    /\ ParseReturned
    /\ CalledLanguage = Points("python")
    /\ <<18, parser_call.code>> \in OneMoreConditional
    /\ Parsed[18][parser_call.language].complexity_score = 100
    /\ parser_returned[1].complexity_score = 100

\* C14: parse of the empty string for python, javascript, typescript or java
\* returns no functions, no classes, no imports and complexity_score 5.
C14_EmptyInputScoresBase ==
    (/\ ParseReturned
     /\ CalledCode = <<>>
     /\ CalledLanguage \in SupportedTags)
    => /\ parser_returned[1].functions = <<>>
       /\ parser_returned[1].classes = <<>>
       /\ parser_returned[1].imports = <<>>
       /\ parser_returned[1].complexity_score = 5

\* end_line >= start_line >= 1 for each of the entities
LinesInOrder(entities) ==
    \A k \in 1..Len(entities) :
        entities[k].end_line >= entities[k].start_line /\ entities[k].start_line >= 1

\* C20: every FunctionInfo and ClassInfo of a ParseResult, the methods of
\* the classes included, has end_line >= start_line >= 1, for every language
\* and input.
C20_EntitiesEndAfterTheyStart ==
    ParseReturned
    => /\ LinesInOrder(parser_returned[1].functions)
       /\ LinesInOrder(parser_returned[1].classes)
       /\ \A k \in 1..Len(parser_returned[1].classes) :
              LinesInOrder(parser_returned[1].classes[k].methods)

\* javascript functions have been parsed whose block does not end, and that
\* have no brace in the whole text
C20_Witness ==
    /\ ParseReturned
    /\ CalledLanguage = Points("javascript")
    /\ \/ /\ CalledCode = Points("\nfunction f(a) {\n  while (x) {\n")
          /\ Len(parser_returned[1].functions) = 1
          /\ parser_returned[1].functions[1].start_line = 2
          /\ parser_returned[1].functions[1].end_line = 4
       \/ /\ ~Contains(CalledCode, Points("{"))
          /\ Len(parser_returned[1].functions) = 2
          /\ parser_returned[1].functions[1].end_line = 3
          /\ parser_returned[1].functions[2].end_line = 1

\* <<i, language, function, class>>: in ParserSamples[i], read as code of
\* that language, the function is declared inside the body of the class
DeclaredInClass ==
    {<<7, Points("python"), Points("m"), Points("A")>>,
     <<9, Points("java"), Points("f"), Points("A")>>}

\* C21: a function declared inside a class body is an entry of that class's
\* methods with is_method true and the class's name, every entry of a
\* class's methods carries that class's name, and the functions of the
\* result are top-level functions with is_method false.
C21_MethodsBelongToTheirClass ==
    (ParseReturned /\ CalledLanguage \in SupportedTags)
    => /\ \A d \in DeclaredInClass :
              (d[1] = parser_call.code /\ d[2] = CalledLanguage)
              => /\ \E c \in 1..Len(parser_returned[1].classes) :
                        /\ parser_returned[1].classes[c].name = d[4]
                        /\ \E k \in 1..Len(parser_returned[1].classes[c].methods) :
                               /\ parser_returned[1].classes[c].methods[k].name = d[3]
                               /\ parser_returned[1].classes[c].methods[k].is_method
                 /\ \A k \in 1..Len(parser_returned[1].functions) :
                        parser_returned[1].functions[k].name # d[3]
       /\ \A c \in 1..Len(parser_returned[1].classes) :
              \A k \in 1..Len(parser_returned[1].classes[c].methods) :
                  parser_returned[1].classes[c].methods[k].class_name
                    = Some(parser_returned[1].classes[c].name)
       /\ \A k \in 1..Len(parser_returned[1].functions) :
              ~parser_returned[1].functions[k].is_method

\* the entities are in non-decreasing order of start_line
InSourceOrder(entities) ==
    \A k \in 1..(Len(entities) - 1) : entities[k].start_line <= entities[k + 1].start_line

\* C22: for python, javascript, typescript and java the functions, the
\* classes and the methods of each class are in source order, whichever
\* pattern found them.
C22_EntitiesInSourceOrder ==
    (ParseReturned /\ CalledLanguage \in SupportedTags)
    => /\ InSourceOrder(parser_returned[1].functions)
       /\ InSourceOrder(parser_returned[1].classes)
       /\ \A c \in 1..Len(parser_returned[1].classes) :
              InSourceOrder(parser_returned[1].classes[c].methods)

\* the nodes at the positions S of a tree, by line and, on one line, by
\* position
RECURSIVE ByLine(_, _)
ByLine(tree, S) ==
    IF S = {} THEN <<>>
    ELSE LET first == CHOOSE k \in S :
                         \A j \in S : \/ tree[k].lineno < tree[j].lineno
                                       \/ (tree[k].lineno = tree[j].lineno /\ k <= j)
         IN  <<tree[first]>> \o ByLine(tree, S \ {first})

\* the names the import statements of a tree bring in, statement by statement
\* in the order of their lines
ImportsInTextOrder(tree) ==
    Flatten(Each(ByLine(tree, {k \in 1..Len(tree) : tree[k].type \in {"Import", "ImportFrom"}}),
                 LAMBDA n : ImportsOf(tree, n)))

\* C23: for python code that parses, the imports are listed in the order of
\* the source text, duplicates kept: an import on an earlier line precedes an
\* import on a later line at whatever depth the two are nested.
C23_ImportsInTextOrder ==
    (/\ ParseReturned
     /\ CalledLanguage = Points("python")
     /\ ast_parse[CalledCode].raised = "")
    => parser_returned[1].imports = ImportsInTextOrder(ast_parse[CalledCode].tree)

\* the eleven keywords and operators of the estimate
EstimateKeywords ==
    {Points(w) : w \in {"if", "else", "for", "while", "switch", "case", "try", "catch",
                        "&&", "||", "?"}}

\* 1 + the occurrences in the code of the keywords and operators
EstimateRaw(code) ==
    1 + Sum([k \in 1..Len(keywords) |-> Count(code, keywords[k])])

\* C25: every ParseResult has a complexity_score from 0 to 100; for every
\* language but python the score is min(100, 2 * raw), raw being 1 + the
\* occurrences of the eleven keywords and operators, so it is at least 2.
C25_EstimateIsTwiceTheKeywordsCapped ==
    ParseReturned =>
        /\ parser_returned[1].complexity_score \in 0..100
        /\ CalledLanguage # Points("python") =>
              /\ {keywords[k] : k \in 1..Len(keywords)} = EstimateKeywords
              /\ parser_returned[1].complexity_score =
                    (IF 2 * EstimateRaw(CalledCode) < 100 THEN 2 * EstimateRaw(CalledCode)
                     ELSE 100)
              /\ parser_returned[1].complexity_score >= 2

\* a javascript parse of code with more than fifty occurrences, scored 100
C25_Witness ==
    /\ ParseReturned
    /\ CalledLanguage = Points("javascript")
    /\ EstimateRaw(CalledCode) > 50
    /\ parser_returned[1].complexity_score = 100

(***************************************************************************)
(* get_severity_summary as a function of its argument.                     *)
(***************************************************************************)
\* sections in one list
MaxSections == 3

\* a FlaggedSection of each severity, as analyze builds them
SectionOf(sev) ==
    [line |-> 1, code |-> Points("x"), issue |-> sev, severity |-> sev, pattern |-> sev]

RECURSIVE SectionLists(_)
SectionLists(n) ==
    IF n = 0 THEN {<<>>}
    ELSE SectionLists(n - 1)
           \cup {Append(l, SectionOf(sev)) : l \in SectionLists(n - 1), sev \in Severities}

InitSummary ==
    /\ ClassifierInit
    /\ ParserInit
    /\ lifecycle = [classifier |-> "bound", parser |-> "bound", trainings |-> 1,
                    step |-> StepBy("import", {})]
    /\ threads = [t \in Threads |-> Idle]
    /\ summary_call \in {[given |-> l, sections |-> l, returned |-> <<>>] :
                            l \in SectionLists(MaxSections)}
    /\ NoCatalogCall
    /\ NoBraceCall
    /\ NoReviewCall

\* defect_classifier.get_severity_summary(sections): the loop reads the
\* sections and writes the local summary only
GetSeveritySummary ==
    /\ summary_call.returned = <<>>
    /\ summary_call' = [summary_call EXCEPT
                          !.returned = <<get_severity_summary(summary_call.sections)>>]
    /\ UNCHANGED <<classifier_vars, parser_vars, concurrent_vars, catalog_call, brace_call, review_call>>

SpecSummary == InitSummary /\ [][GetSeveritySummary]_vars

\* the number of sections of severity sev in a list
SectionsOf(flagged, sev) == Cardinality({k \in DOMAIN flagged : flagged[k].severity = sev})

\* the returned mapping
Summary == summary_call.returned[1]

\* C12: the returned mapping has exactly the five severities as keys, each
\* value is the number of given sections of that severity, the values add up
\* to the number of sections, and the list is as it was given.
C12_SummaryCountsEachSeverity ==
    summary_call.returned # <<>> =>
        /\ DOMAIN Summary = Severities
        /\ \A sev \in Severities : Summary[sev] = SectionsOf(summary_call.given, sev)
        /\ Sum(Summary) = Len(summary_call.given)
        /\ summary_call.sections = summary_call.given

\* a list with a repeated severity and an absent one has been summarised
C12_Witness ==
    /\ summary_call.returned # <<>>
    /\ Len(summary_call.given) = MaxSections
    /\ Summary["error"] = 2
    /\ Summary["info"] = 0

(***************************************************************************)
(* The catalog from construction to scan time.                             *)
(***************************************************************************)
\* what a rule holds in place of its compiled form when its pattern is no
\* regular expression: re.search raises re.error for it
NotCompiled == [raised |-> "re.error"]

\* the rule loop of analyze over `patterns`: re.search raises re.error at the
\* first line of a rule whose pattern does not compile
ScanOrRaise(patterns, lines, trained, answer) ==
    IF \E r \in 1..Len(patterns) : patterns[r].regex = NotCompiled
    THEN Raise("re.error")
    ELSE Return(PredictFrom(ScanLines(patterns, lines), trained, answer))

\* DefectClassifier(): __init__ assigns the literal of lines 38-93 to
\* self.anti_patterns as it is written, compiling and checking nothing, and
\* ends with _initialize_training(), which leaves _is_trained True when the
\* vectorizer and the forest were fitted and False when fitting raised
Construct(fitted) ==
    /\ ~catalog_call.built
    /\ catalog_call' = [catalog_call EXCEPT !.catalog = <<anti_patterns>>, !.built = TRUE]
    /\ _is_trained' = fitted
    /\ forest' = <<>>
    /\ lifecycle' = [lifecycle EXCEPT
                       !.classifier = "bound",
                       !.trainings = @ + 1,
                       !.step = StepBy("import", {"vectorizer", "classifier", "_is_trained",
                                           "anti_patterns", "code_smells"})]
    /\ UNCHANGED <<request, prediction, history, calls, parser_vars, threads, summary_call,
                   brace_call, review_call>>

\* analyze(CodeSamples[i], Languages[j]) on that instance
AnalyzeWith(i, j, answer) ==
    /\ catalog_call.built
    /\ catalog_call.outcome = <<>>
    /\ catalog_call' = [catalog_call EXCEPT
                          !.code = i, !.language = j,
                          !.outcome = <<ScanOrRaise(AppliedFrom(catalog_call.catalog[1],
                                                               Languages[j]),
                                                   SplitLines(CodeSamples[i]),
                                                   _is_trained, answer)>>]
    /\ UNCHANGED <<classifier_vars, parser_vars, concurrent_vars, summary_call, brace_call, review_call>>

\* the calls made on the instance
CatalogRequests == {q \in Requests : q[1] \in 1..8}

NextCatalog ==
    \/ \E fitted \in BOOLEAN : Construct(fitted)
    \/ \E q \in CatalogRequests, answer \in ThreadAnswers : AnalyzeWith(q[1], q[2], answer)

\* from the state before the module is imported: no instance yet
SpecCatalog == InitConcurrent /\ [][NextCatalog]_vars

\* a rule whose pattern is no regular expression or whose severity is none
\* of the five
Malformed(rule) == rule.regex = NotCompiled \/ rule.severity \notin Severities

\* the rules of a catalog, whatever their tag
RulesOf(catalog) ==
    UNION {{catalog[tag][r] : r \in 1..Len(catalog[tag])} : tag \in DOMAIN catalog}

\* C18: the catalog a constructed instance holds has no malformed rule, and
\* no analyze call raises from the rule loop or returns a section whose
\* severity is outside the five (and so weighed by the default).
C18_MalformedRuleRejectedAtConstruction ==
    /\ \A c \in 1..Len(catalog_call.catalog) :
          \A rule \in RulesOf(catalog_call.catalog[c]) : ~Malformed(rule)
    /\ \A k \in 1..Len(catalog_call.outcome) :
          /\ catalog_call.outcome[k].raised = None
          /\ \A n \in 1..Len(catalog_call.outcome[k].value[1].flagged_sections) :
                catalog_call.outcome[k].value[1].flagged_sections[n].severity \in Severities

\* an analyze call on an instance constructed with the fitting gone through
\* has returned sections of two severities, one of them flagged by a
\* security rule
C18_Witness ==
    /\ catalog_call.built
    /\ _is_trained
    /\ lifecycle.trainings = 1
    /\ catalog_call.outcome # <<>>
    /\ catalog_call.outcome[1].raised = None
    /\ \E n, m \in 1..Len(catalog_call.outcome[1].value[1].flagged_sections) :
          /\ catalog_call.outcome[1].value[1].flagged_sections[n].severity = "security"
          /\ catalog_call.outcome[1].value[1].flagged_sections[m].severity = "info"

(***************************************************************************)
(* _find_matching_brace as a function of its arguments.                    *)
(***************************************************************************)
MaxBraceLen == 4

\* the texts of at most n characters over an opening brace, a closing brace
\* and one other character
RECURSIVE BraceTexts(_)
BraceTexts(n) ==
    IF n = 0 THEN {<<>>}
    ELSE LET shorter == BraceTexts(n - 1)
         IN  shorter \cup {Append(t, c) : t \in shorter, c \in {OpenBrace, CloseBrace, Ord("a")}}

\* _parse_javascript and _parse_java call with the offset code.find('{', ...)
\* gave: an offset at which an opening brace stands
InitBrace ==
    /\ ClassifierInit
    /\ ParserInit
    /\ lifecycle = [classifier |-> "bound", parser |-> "bound", trainings |-> 1,
                    step |-> StepBy("import", {})]
    /\ threads = [t \in Threads |-> Idle]
    /\ NoSummaryCall
    /\ NoCatalogCall
    /\ brace_call \in {[code |-> t, start |-> q, returned |-> <<>>] :
                          t \in BraceTexts(MaxBraceLen), q \in 0..(MaxBraceLen - 1)}
    /\ brace_call.start < Len(brace_call.code)
    /\ NoReviewCall
    /\ brace_call.code[brace_call.start + 1] = OpenBrace

FindMatchingBrace ==
    /\ brace_call.returned = <<>>
    /\ brace_call' = [brace_call EXCEPT
                        !.returned = <<_find_matching_brace(brace_call.code,
                                                            brace_call.start)>>]
    /\ UNCHANGED <<classifier_vars, parser_vars, concurrent_vars, summary_call, catalog_call, review_call>>

SpecBrace == InitBrace /\ [][FindMatchingBrace]_vars

\* the scan from offset i with the depth counter at `depth`: the first offset
\* at which the counter is back at zero, len(code) when there is none
RECURSIVE DepthBackAtZero(_, _, _)
DepthBackAtZero(code, i, depth) ==
    IF i >= Len(code) THEN Len(code)
    ELSE LET now == CASE code[i + 1] = OpenBrace -> depth + 1
                      [] code[i + 1] = CloseBrace -> depth - 1
                      [] OTHER -> depth
         IN  IF now = 0 THEN i ELSE DepthBackAtZero(code, i + 1, now)

\* C24: called at an opening brace, _find_matching_brace returns the text
\* from start through the first offset i at which the depth counter is back
\* at zero, together with i; when the counter never comes back it returns the
\* text from start to the end together with len(code); the returned offset is
\* never below start.
C24_MatchingBraceByDepth ==
    brace_call.returned # <<>> =>
        LET code == brace_call.code
            start == brace_call.start
            i == DepthBackAtZero(code, start, 0)
        IN  /\ brace_call.returned[1] =
                  IF i = Len(code) THEN <<SubSeq(code, start + 1, Len(code)), Len(code)>>
                  ELSE <<SubSeq(code, start + 1, i + 1), i>>
            /\ brace_call.returned[1][2] >= start

\* a nested pair closed by the outer brace, the call having returned
C24_Witness ==
    /\ brace_call.code = Points("{{}}")
    /\ brace_call.start = 0
    /\ brace_call.returned = <<<<Points("{{}}"), 3>>>>

\* a text whose braces never close, the call having returned
C24_WitnessOpen ==
    /\ brace_call.code = Points("a{{}")
    /\ brace_call.start = 1
    /\ brace_call.returned = <<<<Points("{{}"), 4>>>>

(***************************************************************************)
(* The /api/review pipeline: analyze, the LLM's answer awaited,          *)
(* ReviewAgent._extract_issues and the construction of the CodeIssue list  *)
(* of the response (models/schemas.py, agents/review_agent.py, main.py).   *)
(* The requests are coroutines of one event loop: a request runs from its  *)
(* start to the await of the LLM's answer, and from the answer to the    *)
(* response, and other requests run in between.                            *)
(***************************************************************************)
\* class Severity(str, Enum): the values
Severity == {"error", "warning", "info", "suggestion"}

\* class Language(str, Enum): the values, which the request's language is
\* validated against
Language == <<"python", "javascript", "typescript", "java", "cpp", "go">>

\* s.split(sep)[1] for a text s in which sep stands: the part
\* between the first sep and the next one, or the end
SecondPart(s, sep) ==
    LET rest == Slice(s, Find(s, sep, 0) + Len(sep), Len(s))
    IN  IF Contains(rest, sep) THEN Slice(rest, 0, Find(rest, sep, 0)) ELSE rest

\* s.lstrip(c) for one character c
LStripChar(s, c) ==
    LET kept == {i \in 1..Len(s) : s[i] # c}
    IN  IF kept = {} THEN <<>> ELSE SubSeq(s, SetMin(kept), Len(s))

\* output.upper().split("CRITICAL")[1].split("\n")[1:5], the output a text
CriticalSection(output) ==
    LET lines == Split(SecondPart(Upper(output), Points("CRITICAL")), LineFeed)
    IN  SubSeq(lines, 2, Min(5, Len(lines)))

\* line.strip() and not line.strip().startswith(("WARNING", "SUGGESTION"))
IsCriticalLine(line) ==
    /\ Strip(line) # <<>>
    /\ ~StartsWith(Strip(line), Points("WARNING"))
    /\ ~StartsWith(Strip(line), Points("SUGGESTION"))

\* the issue _extract_issues appends for a flagged section; the message of
\* an issue is a text
DefectIssue(section) ==
    [line |-> Some(section.line), column |-> None, severity |-> section.severity,
     category |-> "defect", message |-> Points(section.issue), suggestion |-> None,
     code_snippet |-> Some(section.code)]

\* the issue _extract_issues appends for a line of the CRITICAL part of the
\* LLM's output: line.strip().lstrip("-").strip() is its message
CriticalIssue(line) ==
    [line |-> None, column |-> None, severity |-> "error", category |-> "critical",
     message |-> Strip(LStripChar(Strip(line), Ord("-"))), suggestion |-> None,
     code_snippet |-> None]

\* the issues for the lines of the CRITICAL part, none when the output does
\* not hold the word
CriticalIssues(output) ==
    IF Contains(Upper(output), Points("CRITICAL"))
    THEN LET taken == SelectSeq(CriticalSection(output), IsCriticalLine)
         IN  SubSeq([k \in 1..Len(taken) |-> CriticalIssue(taken[k])], 1, Len(taken))
    ELSE <<>>

\* ReviewAgent._extract_issues: the classifier's sections, then the critical
\* lines of agent_result["raw_output"]
_extract_issues(raw_output, flagged) ==
    SubSeq([k \in 1..Len(flagged) |-> DefectIssue(flagged[k])], 1, Len(flagged))
      \o CriticalIssues(raw_output)

\* the calls of the LLM that generate_documentation makes for a parse
\* result: one for each function that is no method, and for each class one
\* and one more for each of its methods
DocCalls(parse_result) ==
    Cardinality({k \in 1..Len(parse_result.functions) : ~parse_result.functions[k].is_method})
      + Sum([k \in 1..Len(parse_result.classes) |-> 1 + Len(parse_result.classes[k].methods)])

\* doc_generator.generate_documentation: it returns when the LLM answers
\* each call; `failure` is None, or the exception the LLM raises when it is
\* called, which generate_documentation does not catch
generate_documentation(parse_result, failure) ==
    IF DocCalls(parse_result) > 0 /\ failure # None THEN Raise(failure[1])
    ELSE Return(DocCalls(parse_result))

\* Severity(value): ValueError for a value that is none of the enum's
SeverityOf(value) ==
    IF value \in Severity THEN Return(value)
    ELSE Raise("'" \o value \o "' is not a valid Severity")

\* the list comprehension of CodeIssue(...) over result.issues
CodeIssues(issues) ==
    LET built == SubSeq([k \in 1..Len(issues) |-> SeverityOf(issues[k].severity)],
                        1, Len(issues))
        bad == RaisedAt(built)
    IN  IF bad = {} THEN Return(issues) ELSE Raise(RaisedFirst(built, bad)[1])

\* the endpoint from the LLM's answer on: what review_code raised in its
\* documentation step, or else what the response model raised, becomes
\* HTTPException(status_code=500, detail=str(e)); otherwise
\* CodeReviewResponse, of which the issues and the prediction are kept
ReviewResponse(result, docs, issues) ==
    IF docs.raised # None THEN [status |-> 500, detail |-> docs.raised[1]]
    ELSE IF issues.raised # None THEN [status |-> 500, detail |-> issues.raised[1]]
    ELSE [status |-> 200, issues |-> issues.value[1],
          defect_prediction |-> [risk_score |-> result.risk_score,
                                 risk_level |-> result.risk_level,
                                 flagged_sections |-> result.flagged_sections,
                                 confidence |-> result.confidence]]

\* requests on the event loop at once
NReviews == 2

Reviews == 1..NReviews

\* settings.MAX_CODE_LENGTH
MAX_CODE_LENGTH == 50000

\* a text of one character more than the endpoint takes
TooLong ==
    LET x == Ord("x")
    IN  SubSeq([k \in 1..(MAX_CODE_LENGTH + 1) |-> x], 1, MAX_CODE_LENGTH + 1)

\* the texts of the request bodies explored
ReviewSamples ==
    <<Points("except:"), Points("def f(p):\n    eval(p)\n"), Points("def f():\n    pass\n"),
      TooLong>>

\* the request bodies explored: the text and the language as indices of
\* ReviewSamples and Language, and generate_docs (True when left out); each
\* passed validation (code of at least one character, a language of the
\* enum)
ReviewRequests ==
    <<[code |-> 1, language |-> 1, generate_docs |-> TRUE],
      [code |-> 2, language |-> 1, generate_docs |-> TRUE],
      [code |-> 3, language |-> 1, generate_docs |-> TRUE],
      [code |-> 3, language |-> 1, generate_docs |-> FALSE],
      [code |-> 4, language |-> 1, generate_docs |-> TRUE]>>

\* len(request.code) > settings.MAX_CODE_LENGTH
CodeTooLong(q) == Len(ReviewSamples[ReviewRequests[q].code]) > MAX_CODE_LENGTH

\* Scan and parse over the request bodies the endpoint takes, computed once
ReviewScanned ==
    SubSeq([q \in 1..Len(ReviewRequests) |->
               IF CodeTooLong(q) THEN [flagged |-> <<>>, issues |-> <<>>]
               ELSE
               Scan(ReviewSamples[ReviewRequests[q].code],
                    Points(Language[ReviewRequests[q].language]))],
           1, Len(ReviewRequests))

ReviewParsed ==
    SubSeq([q \in 1..Len(ReviewRequests) |->
               IF CodeTooLong(q) THEN <<>>
               ELSE
               parse(ReviewSamples[ReviewRequests[q].code],
                     Points(Language[ReviewRequests[q].language]))],
           1, Len(ReviewRequests))

\* what the LLM answers, as texts: nothing (the call failed and
\* _run_llm_analysis returned raw_output ""), or a review in the asked
\* format with five lines after the one that holds the word, one of them
\* with a letter whose upper case no string holds
LlmOutputs ==
    <<<<>>,
      Points("Critical issues:\n- SQL injection\n  ÿ  \nWARNINGS: x\n-- b\nc\n")>>

\* what the LLM raises when it cannot be reached
LlmErrors == {"LLM unreachable"}

\* what rag_service.initialize or get_context_for_review raises when the
\* vector store cannot be opened or searched
RagErrors == {"vector store unavailable"}

\* _extract_issues over the LLM's answers and the request bodies, computed
\* once; the flagged sections of defect_result are those of the scan
Extracted ==
    SubSeq([o \in 1..Len(LlmOutputs) |->
               SubSeq([q \in 1..Len(ReviewRequests) |->
                          _extract_issues(LlmOutputs[o], ReviewScanned[q].flagged)],
                      1, Len(ReviewRequests))],
           1, Len(LlmOutputs))

\* a request as it arrives; `configured` is whether settings.GOOGLE_API_KEY
\* holds a key (its default is the empty string)
Received(q, configured) ==
    [request |-> q, configured |-> configured, pc |-> "received", defect_result |-> <<>>,
     raw_output |-> <<>>, response |-> <<>>]

InitReview ==
    /\ ClassifierInit
    /\ ParserInit
    /\ lifecycle = [classifier |-> "bound", parser |-> "bound", trainings |-> 1,
                    step |-> StepBy("import", {})]
    /\ threads = [t \in Threads |-> Idle]
    /\ NoSummaryCall
    /\ NoCatalogCall
    /\ NoBraceCall
    /\ \E configured \in BOOLEAN :
          review_call \in [Reviews -> {Received(q, configured) : q \in 1..Len(ReviewRequests)}]

\* the text of the request r
ReviewText(r) == ReviewSamples[ReviewRequests[review_call[r].request].code]

\* the request ends with an HTTP error
Answered(call, status, detail) ==
    [call EXCEPT !.pc = "responded", !.response = <<[status |-> status, detail |-> detail]>>]

\* the two checks the endpoint makes before the agent runs: the answer they
\* raise, or None
Refused(call) ==
    IF ~call.configured
    THEN Some(Answered(call, 503,
                       "Google API key not configured. Please set GOOGLE_API_KEY in environment."))
    ELSE IF CodeTooLong(call.request)
    THEN Some(Answered(call, 400, "Code too long. Maximum " \o ToString(MAX_CODE_LENGTH)
                                    \o " characters allowed."))
    ELSE None

\* the endpoint up to the await of the LLM's answer: its two checks, then
\* ReviewAgent.review_code, where analyze returns defect_result and the RAG
\* step follows; `rag` is None, or the exception that step raises, which
\* the endpoint answers with HTTPException(status_code=500, detail=str(e))
ReviewAnalyze(r, fresh, rag) ==
    /\ review_call[r].pc = "received"
    /\ review_call' =
          [review_call EXCEPT
              ![r] = IF Refused(@) # None THEN Refused(@)[1]
                     ELSE [(IF rag # None THEN Answered(@, 500, rag[1])
                            ELSE [@ EXCEPT !.pc = "awaiting"])
                           EXCEPT !.defect_result =
                               <<PredictFrom(ReviewScanned[review_call[r].request],
                                             _is_trained,
                                             ForestAnswer(forest, ReviewText(r), fresh))>>]]
    /\ forest' = IF Refused(review_call[r]) = None /\ _is_trained
                 THEN Remember(forest, ReviewText(r),
                               ForestAnswer(forest, ReviewText(r), fresh))
                 ELSE forest
    /\ _is_trained' = IF Refused(review_call[r]) = None
                      THEN FlagAfter(_is_trained, ForestAnswer(forest, ReviewText(r), fresh))
                      ELSE _is_trained
    /\ UNCHANGED <<request, prediction, history, calls, parser_vars,
                   concurrent_vars, summary_call, catalog_call, brace_call>>

\* what generate_docs makes of the documentation step: skipped, or
\* doc_generator.generate_documentation on the parsed text
Documented(q, failure) ==
    IF ReviewRequests[q].generate_docs
    THEN generate_documentation(ReviewParsed[q], failure)
    ELSE Return(0)

\* from the LLM's answer (LlmOutputs[o]) to the response: the documentation
\* step, which calls the LLM without awaiting, _extract_issues, then the
\* response model of main.py
ReviewRespond(r, o, failure) ==
    /\ review_call[r].pc = "awaiting"
    /\ review_call' =
          [review_call EXCEPT
              ![r].pc = "responded",
              ![r].raw_output = <<LlmOutputs[o]>>,
              ![r].response =
                  <<ReviewResponse(review_call[r].defect_result[1],
                                   Documented(review_call[r].request, failure),
                                   CodeIssues(Extracted[o][review_call[r].request]))>>]
    /\ UNCHANGED <<classifier_vars, parser_vars, concurrent_vars, summary_call, catalog_call,
                   brace_call>>

NextReview ==
    \E r \in Reviews :
        \/ \E fresh \in ThreadAnswers, rag \in {None} \cup {Some(e) : e \in RagErrors} :
              ReviewAnalyze(r, fresh, rag)
        \/ \E o \in 1..Len(LlmOutputs), failure \in {None} \cup {Some(e) : e \in LlmErrors} :
              ReviewRespond(r, o, failure)

SpecReview == InitReview /\ [][NextReview]_vars

\* C29: every severity analyze puts in a flagged section is a value of the
\* API's Severity type, so no /api/review request ends in an error response
\* because of the severity of a rule hit, hits of security rules included:
\* a request the endpoint takes is answered with an error only when the RAG
\* step failed or the LLM failed in the documentation step.
C29_SeveritiesAcceptedByApi ==
    \A r \in DOMAIN review_call :
        review_call[r].response # <<>> =>
            /\ \A d \in 1..Len(review_call[r].defect_result) :
                  \A k \in 1..Len(review_call[r].defect_result[d].flagged_sections) :
                      review_call[r].defect_result[d].flagged_sections[k].severity \in Severity
            /\ review_call[r].response[1].status \in {200, 400, 500, 503}
            /\ review_call[r].response[1].status = 500
                  => review_call[r].response[1].detail \in LlmErrors \cup RagErrors

(***************************************************************************)
(* Properties of the shared instances under concurrent calls.             *)
(***************************************************************************)
\* the attributes no call may assign
ReadOnlyAttributes == {"anti_patterns", "code_smells", "_is_trained", "parsers"}

\* what the call of thread t returns when no other thread runs
AloneResult(call) ==
    CASE call.op = "analyze" ->
           IF _is_trained
           THEN IF call.code \in DOMAIN forest
                THEN <<PredictFrom(Scanned[call.code][call.language], TRUE,
                                   forest[call.code])>>
                ELSE <<>>
           ELSE <<PredictFrom(Scanned[call.code][call.language], FALSE, Answer(TRUE, 0))>>
      [] call.op = "get_severity_summary" ->
           <<get_severity_summary(Scanned[call.code][call.language].flagged)>>
      [] call.op = "parse" -> <<Parsed[call.code][call.language]>>
      [] call.op = "get_code_metrics" -> <<Measured[call.code][call.language]>>

\* C11: training has run exactly once, to its end, before any call on the
\* classifier starts; no step of a request thread assigns the catalog, the
\* thresholds, the trained flag or the dispatch table; and every call
\* returns what it returns when run alone.
C11_TrainedOnceThenReadOnly ==
    /\ \A t \in Threads :
          threads[t].op \in {"analyze", "get_severity_summary"}
              => lifecycle.classifier = "bound" /\ lifecycle.trainings = 1
    /\ lifecycle.step.by = "request"
          => lifecycle.step.wrote \cap ReadOnlyAttributes = {}
    /\ \A t \in Threads :
          threads[t].pc = "done" => threads[t].returned = AloneResult(threads[t])

\* two threads inside analyze at once, one of them past the classifier, on a
\* trained instance, while a third call has returned or not
C11_Witness ==
    /\ _is_trained
    /\ threads[1].op = "analyze" /\ threads[1].pc = "done"
    /\ threads[2].op = "analyze" /\ threads[2].pc = "classified"
    /\ threads[1].code # threads[2].code
====
